---- MODULE Spec2Model ----
(***************************************************************************)
(* A model of mailpile/mail_generator.py: the message serializer           *)
(* (Generator.flatten and its handlers) and the boundary allocator         *)
(* (_make_boundary).  Text is modelled as sequences of one-character       *)
(* strings, so that every write, split, join and regular-expression match  *)
(* of the source is computed character by character.  The task results of  *)
(* mailpile/ui.py (Session.report_task_completed, Session.wait_for_task)   *)
(* are modelled as threads that share a condition variable, and the log    *)
(* buffer of a UserInteraction as the calls made on it.                    *)
(***************************************************************************)
EXTENDS Integers, Sequences, FiniteSets, TLC

VARIABLES
  mb,       \* a call of _make_boundary: its locals and its position
  ctor,     \* the arguments the Generator was constructed with
  generator,\* the Generator instance: _mangle_from_, _maxheaderlen, _NL
  message,  \* the message tree the caller owns
  outfp,    \* the file object the Generator writes to
  calls,    \* the flatten calls made so far, with what each did
  session,  \* a Session: task_results, wait_lock and the threads that use them
  ui        \* a UserInteraction: its log buffer and what its last call displayed

vars == <<mb, ctor, generator, message, outfp, calls, session, ui>>

\* Python's None where a text may stand: no text is a tuple of one character
\* strings equal to it
None == <<"None">>

LF == "\n"
CR == "\r"

(***************************************************************************)
(* Bounds of the model                                                     *)
(***************************************************************************)
\* random.randrange(sys.maxint) is drawn from 0..MaxToken
MaxToken == 1
\* the candidate texts of the allocator have at most MaxLines lines
MaxLines == 2
\* the threads of a session report at most MaxReports tasks in all
MaxReports == 2
\* the calls of log on a UserInteraction pass LogPeriod messages in turn
LogPeriod == 7

(***************************************************************************)
(* Program constants                                                       *)
(***************************************************************************)
\* _width = len(repr(sys.maxint-1)), 19 on a 64 bit build
Width == 19
\* boundary = ('=' * 15) + ...
EqPrefixLen == 15
\* Generator.__init__(..., maxheaderlen=78, ...)
DefaultMaxHeaderLen == 78

(***************************************************************************)
(* Text helpers (Python str operations)                                    *)
(***************************************************************************)
Min(S) == CHOOSE x \in S : \A y \in S : x <= y

\* s[i:i+len(p)] == p
MatchAt(s, i, p) ==
  /\ i >= 1
  /\ i + Len(p) - 1 <= Len(s)
  /\ SubSeq(s, i, i + Len(p) - 1) = p

\* c * n
RECURSIVE Rep(_, _)
Rep(c, n) == IF n <= 0 THEN <<>> ELSE <<c>> \o Rep(c, n - 1)

\* sep.join(parts)
RECURSIVE Join(_, _)
Join(parts, sep) ==
  IF Len(parts) = 0 THEN <<>>
  ELSE IF Len(parts) = 1 THEN parts[1]
  ELSE parts[1] \o sep \o Join(Tail(parts), sep)

\* s.split(sep), for a non-empty sep: non-overlapping occurrences, left to right
RECURSIVE Split(_, _)
Split(s, sep) ==
  LET hits == {i \in 1..Len(s) : MatchAt(s, i, sep)}
  IN IF hits = {} THEN <<s>>
     ELSE LET i == Min(hits)
          IN <<SubSeq(s, 1, i - 1)>> \o Split(SubSeq(s, i + Len(sep), Len(s)), sep)

\* s.replace(old, new)
Replace(s, old, new) == Join(Split(s, old), new)

DigitChar(d) == <<"0","1","2","3","4","5","6","7","8","9">>[d + 1]

\* str(n) for n >= 0
RECURSIVE Str(_)
Str(n) == IF n < 10 THEN <<DigitChar(n)>> ELSE Str(n \div 10) \o <<DigitChar(n % 10)>>

\* _fmt % token with _fmt = '%0<_width>d'
Fmt(token) == LET d == Str(token) IN Rep("0", Width - Len(d)) \o d

(***************************************************************************)
(* Python 2 print statement and file objects                               *)
(***************************************************************************)
Whitespace == {" ", "\t", "\n", "\r", "\f"}

\* StringIO()
NewStringIO == [buf |-> <<>>, soft |-> FALSE]

\* fp.write(s)
FpWrite(fp, s) == [fp EXCEPT !.buf = @ \o s]

\* print >> fp, s,   (trailing comma): a pending soft space is written first,
\* and one is left pending unless s ends in whitespace other than a blank
PrintItemSoftPending(fp, s) ==
  [buf  |-> fp.buf \o (IF fp.soft THEN <<" ">> ELSE <<>>) \o s,
   soft |-> TRUE]

PrintItem(fp, s) ==
  [buf  |-> fp.buf \o (IF fp.soft THEN <<" ">> ELSE <<>>) \o s,
   soft |-> (Len(s) = 0 \/ s[Len(s)] \notin Whitespace \/ s[Len(s)] = " ")]

(***************************************************************************)
(* fcre = re.compile(r'^From ', re.MULTILINE)                              *)
(***************************************************************************)
\* fcre.sub('>From ', s); bol: the first character of s starts a line
RECURSIVE FcreSubAt(_, _)
FcreSubAt(s, bol) ==
  LET hits == {i \in 1..Len(s) :
                 /\ (IF i = 1 THEN bol ELSE s[i - 1] = LF)
                 /\ MatchAt(s, i, <<"F","r","o","m"," ">>)}
  IN IF hits = {} THEN s
     ELSE LET i == Min(hits)
          IN SubSeq(s, 1, i - 1) \o <<">","F","r","o","m"," ">>
               \o FcreSubAt(SubSeq(s, i + 5, Len(s)), FALSE)

FcreSubFirstOnly(s) == IF MatchAt(s, 1, <<"F","r","o","m"," ">>) THEN <<">">> \o s ELSE s

FcreSub(s) == FcreSubAt(s, TRUE)

(***************************************************************************)
(* email.header.Header(v, maxlinelen, header_name).encode(), as called by  *)
(* _write_headers for a plain ASCII value (charset us-ascii, continuation  *)
(* whitespace ' ', splitchars ';, ')                                       *)
(***************************************************************************)
\* s.lstrip()
RECURSIVE LStrip(_)
LStrip(s) == IF Len(s) > 0 /\ s[1] \in Whitespace THEN LStrip(Tail(s)) ELSE s

\* s.splitlines()
SplitLines(s) ==
  LET n == Replace(Replace(s, <<CR, LF>>, <<LF>>), <<CR>>, <<LF>>)
      parts == Split(n, <<LF>>)
  IN IF Len(s) = 0 THEN <<>>
     ELSE IF parts[Len(parts)] = <<>> THEN SubSeq(parts, 1, Len(parts) - 1)
     ELSE parts

\* re.compile(r'%s\s*' % ch).split(line)
RECURSIVE ReSplit(_, _)
ReSplit(line, ch) ==
  LET hits == {i \in 1..Len(line) : line[i] = ch}
  IN IF hits = {} THEN <<line>>
     ELSE LET i == Min(hits)
              nonws == {j \in (i + 1)..Len(line) : line[j] \notin Whitespace}
              j == IF nonws = {} THEN Len(line) + 1 ELSE Min(nonws)
          IN <<SubSeq(line, 1, i - 1)>> \o ReSplit(SubSeq(line, j, Len(line)), ch)

\* email.header.fcre = re.compile(r'[\041-\176]+:$'), fcre.match(s)
HeaderFcreMatch(s) ==
  /\ Len(s) >= 2
  /\ s[Len(s)] = ":"
  /\ \A i \in 1..Len(s) : s[i] \notin Whitespace /\ Len(s[i]) = 1

RECURSIVE SplitAscii(_, _, _, _)
RECURSIVE SplitAsciiLines(_, _, _, _)
RECURSIVE SplitAsciiParts(_, _, _, _)

\* the loop over cre.split(line) of email.header._split_ascii
SplitAsciiParts(parts, x, restlen, ch) ==
  IF Len(parts) = 0 THEN x
  ELSE
    LET part == Head(parts)
        eol == IF ch \in {";", ","} THEN <<ch>> ELSE <<>>
        joiner == eol \o <<" ">>
        curlen == x.linelen
                    + (IF Len(x.this) > 1 THEN Len(x.this) - 1 ELSE 0) * Len(joiner)
        partlen == Len(part)
        onfirstline == Len(x.lines) = 0
        flushed == IF Len(x.this) > 0
                   THEN Append(x.lines, Join(x.this, joiner) \o eol)
                   ELSE x.lines
        subl == SplitAscii(part, x.maxlen, restlen, <<" ">>)
        x2 ==
          IF ch = " " /\ onfirstline /\ Len(x.this) = 1 /\ HeaderFcreMatch(x.this[1])
          THEN [x EXCEPT !.this = Append(@, part), !.linelen = @ + partlen]
          ELSE IF curlen + partlen > x.maxlen
          THEN IF partlen > x.maxlen /\ ch # " "
               THEN [this |-> <<subl[Len(subl)]>>,
                     linelen |-> 1 + Len(subl[Len(subl)]),
                     lines |-> flushed \o SubSeq(subl, 1, Len(subl) - 1),
                     maxlen |-> restlen]
               ELSE [this |-> <<part>>, linelen |-> 1 + partlen,
                     lines |-> flushed, maxlen |-> restlen]
          ELSE [x EXCEPT !.this = Append(@, part), !.linelen = @ + partlen]
    IN SplitAsciiParts(Tail(parts), x2, restlen, ch)

\* the loop over s.splitlines() of email.header._split_ascii
SplitAsciiLines(ls, y, restlen, splitchars) ==
  IF Len(ls) = 0 THEN y.lines
  ELSE
    LET line == LStrip(Head(ls))
        present == {k \in 1..Len(splitchars) :
                      \E i \in 1..Len(line) : line[i] = splitchars[k]}
        ch == splitchars[Min(present)]
        eol == IF ch \in {";", ","} THEN <<ch>> ELSE <<>>
        x == SplitAsciiParts(ReSplit(line, ch),
                             [this |-> <<>>, linelen |-> 0,
                              lines |-> y.lines, maxlen |-> y.maxlen],
                             restlen, ch)
        y2 == IF Len(line) < y.maxlen \/ present = {}
              THEN [lines |-> Append(y.lines, line), maxlen |-> restlen]
              ELSE [lines |-> IF Len(x.this) > 0
                              THEN Append(x.lines, Join(x.this, eol \o <<" ">>))
                              ELSE x.lines,
                    maxlen |-> x.maxlen]
    IN SplitAsciiLines(Tail(ls), y2, restlen, splitchars)

\* email.header._split_ascii(s, firstlen, restlen, ' ', splitchars)
SplitAscii(s, firstlen, restlen, splitchars) ==
  SplitAsciiLines(SplitLines(s), [lines |-> <<>>, maxlen |-> firstlen],
                  restlen, splitchars)

\* Header._encode_chunks: the chunks appended with email.header._max_append
RECURSIVE MaxAppendAll(_, _, _)
MaxAppendAll(chunks, L, maxlen) ==
  IF Len(chunks) = 0 THEN L
  ELSE
    LET c == Head(chunks)
        last == L[Len(L)]
        extra == IF last[Len(last)] = " " THEN <<>> ELSE <<" ">>
        L2 == IF Len(c) = 0 THEN L
              ELSE IF Len(L) = 0 THEN Append(L, LStrip(c))
              ELSE IF Len(last) + Len(c) <= maxlen
              THEN [L EXCEPT ![Len(L)] = @ \o extra \o c]
              ELSE Append(L, LStrip(c))
    IN MaxAppendAll(Tail(chunks), L2, maxlen)

\* Header(v, maxlinelen=maxlinelen, header_name=h).encode()
HeaderEncode(v, maxlinelen, h) ==
  LET firstlinelen == maxlinelen - Len(h) - 2
      restlen == maxlinelen - 1
      targetlen == IF firstlinelen - 1 < 0 THEN firstlinelen ELSE firstlinelen - 1
      newchunks == IF Len(v) <= targetlen THEN <<v>>
                   ELSE SplitAscii(v, targetlen, restlen, <<";",","," ">>)
  IN Join(MaxAppendAll(newchunks, <<>>, firstlinelen), <<LF, " ">>)

\* email.header._embeded_header = re.compile(r'\n[^ \t]+:'), searched in the
\* encoded value
EmbeddedHeader(value) ==
  \E i \in 1..Len(value) : \E j \in (i + 2)..Len(value) :
    /\ value[i] = LF
    /\ value[j] = ":"
    /\ \A k \in (i + 1)..(j - 1) : value[k] \notin {" ", "\t"}

(***************************************************************************)
(* _make_boundary                                                          *)
(***************************************************************************)
\* re.compile('^--' + re.escape(b) + '(--)?$', re.MULTILINE).search(text)
CreSearchNoClose(b, text) ==
  \E i \in 1..Len(text) :
    /\ (i = 1 \/ text[i - 1] = LF)
    /\ MatchAt(text, i, <<"-","-">> \o b)
    /\ LET j == i + Len(b) + 2
       IN (j = Len(text) + 1 \/ text[j] = LF)

CreSearch(b, text) ==
  \E i \in 1..Len(text) :
    /\ (i = 1 \/ text[i - 1] = LF)
    /\ MatchAt(text, i, <<"-","-">> \o b)
    /\ LET j == i + Len(b) + 2
           eol(k) == k = Len(text) + 1 \/ (k <= Len(text) /\ text[k] = LF)
       IN \/ (MatchAt(text, j, <<"-","-">>) /\ eol(j + 2))
          \/ eol(j)

\* boundary = ('=' * 15) + (_fmt % token) + '=='
BoundaryOf(token) == Rep("=", EqPrefixLen) \o Fmt(token) \o <<"=","=">>

\* lines 431-436: the state of the call before the loop
MakeBoundaryEnter(token, text) ==
  LET boundary == BoundaryOf(token)
  IN IF text = None
     THEN [pc |-> "done", text |-> text, boundary |-> boundary,
           b |-> boundary, counter |-> 0, tests |-> 0]
     ELSE [pc |-> "loop", text |-> text, boundary |-> boundary,
           b |-> boundary, counter |-> 0, tests |-> 0]

\* lines 437-442: one iteration of the while loop
MakeBoundaryIterNoCount(m) ==
  IF ~CreSearch(m.b, m.text)
  THEN [m EXCEPT !.pc = "done", !.tests = @ + 1]
  ELSE [m EXCEPT !.b = m.boundary \o <<".">> \o Str(m.counter)]

MakeBoundaryIter(m) ==
  IF ~CreSearch(m.b, m.text)
  THEN [m EXCEPT !.pc = "done", !.tests = @ + 1]
  ELSE [m EXCEPT !.b = m.boundary \o <<".">> \o Str(m.counter),
                 !.counter = @ + 1, !.tests = @ + 1]

RECURSIVE MakeBoundaryRun(_)
MakeBoundaryRun(m) == IF m.pc = "done" THEN m ELSE MakeBoundaryRun(MakeBoundaryIter(m))

\* _make_boundary(text) for the random token drawn at line 431
MakeBoundary(token, text) == MakeBoundaryRun(MakeBoundaryEnter(token, text)).b

(***************************************************************************)
(* Message objects (email.message.Message as the generator uses it)        *)
(*   main, sub : get_content_maintype(), get_content_subtype()             *)
(*   hasct     : a Content-Type header is present                          *)
(*   boundary  : get_boundary(), None when the header has no boundary      *)
(*   headers   : the other headers, in order                               *)
(*   payload   : get_payload(): nothing, a string, a list of parts or      *)
(*               another scalar                                            *)
(***************************************************************************)
PayNone == [k |-> "none", s |-> <<>>, parts |-> <<>>]
PayStr(s) == [k |-> "str", s |-> s, parts |-> <<>>]
PayList(parts) == [k |-> "list", s |-> <<>>, parts |-> parts]
PayInt == [k |-> "int", s |-> <<>>, parts |-> <<>>]

\* a raw byte above 0x7f stands in a string as one element of HighBytes
HighBytes == {"\\xe9"}

\* a header value: a str, or a Header instance whose encode() gives v
HdrStr(h, v) == [h |-> h, v |-> v, kind |-> "str"]
HdrObj(h, v) == [h |-> h, v |-> v, kind |-> "Header"]

\* msg.items(): the Content-Type header reports the boundary parameter
ContentTypeValue(msg) ==
  msg.main \o <<"/">> \o msg.sub
    \o (IF msg.boundary = None THEN <<>>
        ELSE <<";"," ","b","o","u","n","d","a","r","y","=","\"">> \o msg.boundary \o <<"\"">>)

Items(msg) ==
  (IF msg.hasct THEN <<HdrStr(<<"C","o","n","t","e","n","t","-","T","y","p","e">>, ContentTypeValue(msg))>> ELSE <<>>)
    \o msg.headers

\* msg.set_boundary(boundary)
SetBoundaryDropped(msg, boundary) == msg

SetBoundary(msg, boundary) == [msg EXCEPT !.boundary = boundary]

\* _is8bitstring(s)
Is8BitString(hv) == hv.kind = "str" /\ \E i \in 1..Len(hv.v) : hv.v[i] \in HighBytes

\* a truth test of an optional string: None and '' are false
Truthy(x) == x # None /\ x # <<>>

(***************************************************************************)
(* Generator                                                               *)
(***************************************************************************)
\* Generator.__init__(outfp, mangle_from_, maxheaderlen, linesep)
GeneratorInit(mangle, maxheaderlen, linesep) ==
  [mangle |-> mangle, maxheaderlen |-> maxheaderlen,
   NL |-> IF Truthy(linesep) THEN linesep ELSE <<LF>>]

\* Generator.clone(fp)
CloneDefaults(gen) == GeneratorInit(TRUE, DefaultMaxHeaderLen, None)

Clone(gen) == GeneratorInit(gen.mangle, gen.maxheaderlen, None)

\* the value of a call: the file written to, the message (whose boundaries
\* the call may have set), the exception raised, and the call's bookkeeping:
\* st.rs the random numbers still to be drawn, st.log what happened, in order
Result(fp, msg, err, st) == [fp |-> fp, msg |-> msg, err |-> err, st |-> st]

Logged(st, ev) == [st EXCEPT !.log = Append(@, ev)]

Ev(e, path, v) == [e |-> e, path |-> path, v |-> v]

\* Generator._write_headers: one header, lines 206-230
WriteHeader(gen, fp, hv) ==
  LET fp1 == PrintItem(fp, hv.h \o <<":">>)
      encoded == HeaderEncode(hv.v, gen.maxheaderlen, hv.h)
  IN IF gen.maxheaderlen = 0
     THEN IF hv.kind = "Header"
          THEN [fp |-> fp1, err |-> "TypeError"]
          ELSE [fp |-> PrintItem(fp1, hv.v \o gen.NL), err |-> "ok"]
     ELSE IF hv.kind = "Header"
     THEN [fp |-> PrintItem(fp1, Replace(hv.v, <<LF>>, gen.NL) \o gen.NL), err |-> "ok"]
     ELSE IF Is8BitString(hv)
     THEN [fp |-> PrintItem(fp1, hv.v \o gen.NL), err |-> "ok"]
     ELSE IF EmbeddedHeader(encoded)
     THEN [fp |-> fp1, err |-> "HeaderParseError"]
     ELSE [fp |-> PrintItem(fp1, Replace(encoded, <<LF>>, gen.NL) \o gen.NL),
           err |-> "ok"]

\* Generator._write_headers: lines 204-232
RECURSIVE WriteHeadersFrom(_, _, _), WriteHeadersNoBlankLine(_, _, _)
WriteHeadersNoBlankLine(gen, fp, hs) ==
  IF Len(hs) = 0 THEN [fp |-> fp, err |-> "ok"]
  ELSE LET r == WriteHeader(gen, fp, Head(hs))
       IN IF r.err # "ok" THEN r ELSE WriteHeadersNoBlankLine(gen, r.fp, Tail(hs))

WriteHeadersFrom(gen, fp, hs) ==
  IF Len(hs) = 0 THEN [fp |-> PrintItem(fp, gen.NL), err |-> "ok"]
  ELSE LET r == WriteHeader(gen, fp, Head(hs))
       IN IF r.err # "ok" THEN r ELSE WriteHeadersFrom(gen, r.fp, Tail(hs))

WriteHeaders(gen, fp, msg) == WriteHeadersFrom(gen, fp, Items(msg))

\* Generator._handle_text (and _writeBody): lines 238-249
HandleTextNoCheck(gen, fp, msg, path, st) ==
  LET written == IF gen.mangle THEN FcreSub(msg.payload.s) ELSE msg.payload.s
  IN Result(FpWrite(fp, written), msg, "ok", Logged(st, Ev("text", path, written)))

HandleText(gen, fp, msg, path, st) ==
  LET payload == msg.payload
      written == IF gen.mangle THEN FcreSub(payload.s) ELSE payload.s
  IN IF payload.k = "none" THEN Result(fp, msg, "ok", st)
     ELSE IF payload.k # "str" THEN Result(fp, msg, "TypeError", st)
     ELSE Result(FpWrite(fp, written), msg, "ok",
                 Logged(st, Ev("text", path, written)))

\* the method names _dispatch can find with getattr(self, '_handle_' + name)
HandlerNames ==
  { <<"t","e","x","t">>, <<"m","u","l","t","i","p","a","r","t">>, <<"m","u","l","t","i","p","a","r","t","_","s","i","g","n","e","d">>,
    <<"m","e","s","s","a","g","e","_","d","e","l","i","v","e","r","y","_","s","t","a","t","u","s">>, <<"m","e","s","s","a","g","e">> }

\* Generator._dispatch, lines 189-197: the handler chosen
DispatchNameExactOnly(msg) ==
  LET specific == Replace(msg.main \o <<"_">> \o msg.sub, <<"-">>, <<"_">>)
  IN IF specific \in HandlerNames THEN specific ELSE <<"_","w","r","i","t","e","B","o","d","y">>

DispatchName(msg) ==
  LET specific == Replace(msg.main \o <<"_">> \o msg.sub, <<"-">>, <<"_">>)
      generic == Replace(msg.main, <<"-">>, <<"_">>)
  IN IF specific \in HandlerNames THEN specific
     ELSE IF generic \in HandlerNames THEN generic
     ELSE <<"_","w","r","i","t","e","B","o","d","y">>

RECURSIVE Flatten(_, _, _, _, _, _, _, _)
RECURSIVE MultipartParts(_, _, _, _, _, _)
RECURSIVE DeliveryStatusParts(_, _, _, _, _, _)

\* Generator._handle_multipart, lines 266-270: the parts from the i-th on are
\* flattened by clones into buffers of their own; texts collects the buffers.
\* r is what g.flatten(part) gave for the i-th part
MultipartPartsNext(gen, parts, i, path, texts, r) ==
  IF r.err # "ok"
  THEN [parts |-> [parts EXCEPT ![i] = r.msg], texts |-> texts,
        err |-> r.err, st |-> r.st]
  ELSE MultipartParts(gen, [parts EXCEPT ![i] = r.msg], i + 1, path, r.st,
                      Append(texts, r.fp.buf))

MultipartParts(gen, parts, i, path, st, texts) ==
  IF i > Len(parts)
  THEN [parts |-> parts, texts |-> texts, err |-> "ok", st |-> st]
  ELSE MultipartPartsNext(gen, parts, i, path, texts,
         Flatten(Clone(gen), NewStringIO, parts[i], FALSE, gen.NL, <<>>,
                 Append(path, i), st))

\* Generator._handle_multipart, lines 294-298: the body parts after the first,
\* each behind a delimiter line
RECURSIVE WriteBodyPartsNoSeparator(_, _, _, _)
WriteBodyPartsNoSeparator(gen, fp, boundary, texts) ==
  IF Len(texts) = 0 THEN fp
  ELSE WriteBodyPartsNoSeparator(gen,
         FpWrite(PrintItem(fp, <<"-","-">> \o boundary \o gen.NL), Head(texts)),
         boundary, Tail(texts))

RECURSIVE WriteBodyParts(_, _, _, _)
WriteBodyParts(gen, fp, boundary, texts) ==
  IF Len(texts) = 0 THEN fp
  ELSE WriteBodyParts(gen,
         FpWrite(PrintItem(fp, gen.NL \o <<"-","-">> \o boundary \o gen.NL), Head(texts)),
         boundary, Tail(texts))

\* Generator._handle_multipart, lines 279-307: preamble, delimiter lines and
\* body parts, close delimiter, epilogue
MultipartBody(gen, fp, msg, boundary, msgtexts) ==
  LET \* lines 280-285
      fp1 == IF msg.preamble # None
             THEN PrintItem(fp, (IF gen.mangle THEN FcreSub(msg.preamble)
                                 ELSE msg.preamble) \o gen.NL)
             ELSE fp
      \* lines 287-298
      fp2 == PrintItem(fp1, <<"-","-">> \o boundary \o gen.NL)
      fp4 == IF Len(msgtexts) > 0
             THEN WriteBodyParts(gen, FpWrite(fp2, Head(msgtexts)), boundary,
                                 Tail(msgtexts))
             ELSE fp2
      \* line 300
      fp5 == FpWrite(fp4, gen.NL \o <<"-","-">> \o boundary \o <<"-","-">>)
  IN \* lines 301-307
     IF msg.epilogue # None
     THEN FpWrite(PrintItem(fp5, gen.NL),
                  IF gen.mangle THEN FcreSub(msg.epilogue) ELSE msg.epilogue)
     ELSE fp5

\* Generator._handle_multipart: the handler returns, written is the file
\* after lines 279-307
MultipartWritten(fp, msg, path, st, msgtexts, boundary, written) ==
  Result(written, msg, "ok",
         Logged(st, Ev("multipart", path,
                       [boundary |-> boundary, texts |-> msgtexts,
                        body |-> SubSeq(written.buf, Len(fp.buf) + 1,
                                        Len(written.buf))])))

\* Generator._handle_multipart, lines 272-307; boundary is msg.get_boundary()
\* or, when there is none, the token _make_boundary returned
MultipartWithBoundary(gen, fp, msg, path, st, msgtexts, boundary) ==
  LET found == Truthy(msg.boundary)
      msg2 == IF found THEN msg ELSE SetBoundary(msg, boundary)
      st2 == IF found THEN st
             ELSE Logged([st EXCEPT !.rs = Tail(@)],
                         Ev("set_boundary", path, boundary))
  IN MultipartWritten(fp, msg2, path, st2, msgtexts, boundary,
                      MultipartBody(gen, fp, msg, boundary, msgtexts))

\* Generator._handle_multipart, lines 271-278; loop is what lines 266-270 gave
MultipartFlattened(gen, fp, msg, path, loop) ==
  LET msg1 == IF msg.payload.k = "list"
              THEN [msg EXCEPT !.payload = PayList(loop.parts)]
              ELSE msg
  IN IF loop.err # "ok"
     THEN Result(fp, msg1, loop.err, loop.st)
     ELSE MultipartWithBoundary(gen, fp, msg1, path, loop.st, loop.texts,
            IF Truthy(msg.boundary) THEN msg.boundary
            ELSE MakeBoundary(Head(loop.st.rs), Join(loop.texts, gen.NL)))

\* Generator._handle_multipart, lines 251-307
HandleMultipart(gen, fp, msg, path, st) ==
  IF msg.payload.k = "str"
  THEN Result(FpWrite(fp, msg.payload.s), msg, "ok", st)
  ELSE IF msg.payload.k = "int"
  THEN \* flatten() of a scalar that is no message
       Result(fp, msg, "AttributeError", st)
  ELSE MultipartFlattened(gen, fp, msg, path,
         MultipartParts(gen, IF msg.payload.k = "list" THEN msg.payload.parts
                             ELSE <<>>,
                        1, path, st, <<>>))

\* Generator._handle_multipart_signed, lines 309-315
HandleMultipartSignedNoWrap(gen, fp, msg, path, st) ==
  HandleMultipart([gen EXCEPT !.maxheaderlen = 0], fp, msg, path, st)

HandleMultipartSigned(gen, fp, msg, path, st) ==
  HandleMultipart(gen, fp, msg, path, st)

\* Generator._handle_message_delivery_status, lines 334-339: the block kept of
\* a part's text
BlockOfUnstripped(text, NL) == text

BlockOf(text, NL) ==
  LET lines == Split(text, NL)
  IN IF lines[Len(lines)] = <<>>
     THEN Join(SubSeq(lines, 1, Len(lines) - 1), NL)
     ELSE text

\* Generator._handle_message_delivery_status, lines 329-339; r is what
\* g.flatten(part) gave for the i-th part
DeliveryStatusPartsNext(gen, parts, i, path, blocks, r) ==
  IF r.err # "ok"
  THEN [parts |-> [parts EXCEPT ![i] = r.msg], texts |-> blocks,
        err |-> r.err, st |-> r.st]
  ELSE DeliveryStatusParts(gen, [parts EXCEPT ![i] = r.msg], i + 1, path, r.st,
                           Append(blocks, BlockOf(r.fp.buf, gen.NL)))

DeliveryStatusParts(gen, parts, i, path, st, blocks) ==
  IF i > Len(parts)
  THEN [parts |-> parts, texts |-> blocks, err |-> "ok", st |-> st]
  ELSE DeliveryStatusPartsNext(gen, parts, i, path, blocks,
         Flatten(Clone(gen), NewStringIO, parts[i], FALSE, gen.NL, <<>>,
                 Append(path, i), st))

\* Generator._handle_message_delivery_status, lines 340-343; loop is what
\* lines 329-339 gave
DeliveryStatusBlocks(gen, fp, msg, path, loop) ==
  IF loop.err # "ok"
  THEN Result(fp, [msg EXCEPT !.payload = PayList(loop.parts)], loop.err, loop.st)
  ELSE Result(FpWrite(fp, Join(loop.texts, gen.NL)),
              [msg EXCEPT !.payload = PayList(loop.parts)], "ok",
              Logged(loop.st, Ev("delivery_status", path, Join(loop.texts, gen.NL))))

\* Generator._handle_message_delivery_status, lines 324-343
HandleMessageDeliveryStatus(gen, fp, msg, path, st) ==
  IF msg.payload.k \in {"none", "int"}
  THEN \* the payload cannot be iterated
       Result(fp, msg, "TypeError", st)
  ELSE IF msg.payload.k = "str"
  THEN \* iterates the characters, none of which is a message
       IF Len(msg.payload.s) = 0
       THEN Result(fp, msg, "ok", Logged(st, Ev("delivery_status", path, <<>>)))
       ELSE Result(fp, msg, "AttributeError", st)
  ELSE DeliveryStatusBlocks(gen, fp, msg, path,
         DeliveryStatusParts(gen, msg.payload.parts, 1, path, st, <<>>))

\* Generator._handle_message, lines 359-361; r is what g.flatten gave for
\* msg.get_payload(0)
MessageFlattened(fp, msg, r) ==
  IF r.err # "ok"
  THEN Result(fp, [msg EXCEPT !.payload.parts[1] = r.msg], r.err, r.st)
  ELSE Result(FpWrite(fp, r.fp.buf), [msg EXCEPT !.payload.parts[1] = r.msg],
              "ok", r.st)

\* Generator._handle_message, lines 345-361
HandleMessageAsText(gen, fp, msg, path, st) == HandleText(gen, fp, msg, path, st)

HandleMessage(gen, fp, msg, path, st) ==
  IF msg.payload.k = "list"
  THEN IF Len(msg.payload.parts) = 0 THEN Result(fp, msg, "IndexError", st)
       ELSE MessageFlattened(fp, msg,
              Flatten(Clone(gen), NewStringIO, msg.payload.parts[1], FALSE,
                      gen.NL, <<>>, Append(path, 1), st))
  ELSE IF msg.payload.k = "str"
  THEN Result(FpWrite(fp, msg.payload.s), msg, "ok", st)
  ELSE \* fp.write() of something that is no string
       Result(fp, msg, "TypeError", st)

\* Generator._dispatch, line 198: the handler returned r, having written to fp
Dispatched(fp, path, r) ==
  IF r.err # "ok" THEN r
  ELSE Result(r.fp, r.msg, "ok",
              Logged(r.st, Ev("body", path,
                              SubSeq(r.fp.buf, Len(fp.buf) + 1, Len(r.fp.buf)))))

\* Generator._dispatch, lines 184-198
Dispatch(gen, fp, msg, path, st) ==
  LET name == DispatchName(msg)
      st1 == Logged(st, Ev("dispatch", path, name))
  IN Dispatched(fp, path,
       IF name = <<"m","u","l","t","i","p","a","r","t","_","s","i","g","n","e","d">> THEN HandleMultipartSigned(gen, fp, msg, path, st1)
       ELSE IF name = <<"m","e","s","s","a","g","e","_","d","e","l","i","v","e","r","y","_","s","t","a","t","u","s">>
       THEN HandleMessageDeliveryStatus(gen, fp, msg, path, st1)
       ELSE IF name = <<"m","u","l","t","i","p","a","r","t">> THEN HandleMultipart(gen, fp, msg, path, st1)
       ELSE IF name = <<"m","e","s","s","a","g","e">> THEN HandleMessage(gen, fp, msg, path, st1)
       ELSE HandleText(gen, fp, msg, path, st1))

\* Generator._write, lines 175-182: d is what _dispatch wrote to sfp, h the
\* file after _write_headers
WriteBody(fp, path, d, h) ==
  IF h.err # "ok" THEN Result(h.fp, d.msg, h.err, d.st)
  ELSE Result(FpWrite(h.fp, d.fp.buf), d.msg, "ok",
              Logged(d.st, Ev("headers", path,
                              SubSeq(h.fp.buf, Len(fp.buf) + 1, Len(h.fp.buf)))))

\* Generator._write, lines 173-182: an exception of _dispatch leaves through
\* the finally clause
WriteDispatched(gen, fp, path, d) ==
  IF d.err # "ok" THEN Result(fp, d.msg, d.err, d.st)
  ELSE WriteBody(fp, path, d, WriteHeaders(gen, fp, d.msg))

\* Generator._write, lines 157-182
WriteHeadersFirst(gen, fp, msg, path, st) ==
  LET h == WriteHeaders(gen, fp, msg)
      d == Dispatch(gen, NewStringIO, msg, path, st)
  IN IF d.err # "ok" THEN Result(h.fp, d.msg, d.err, d.st)
     ELSE Result(FpWrite(h.fp, d.fp.buf), d.msg, h.err,
                 Logged(d.st, Ev("headers", path, <<>>)))

Write(gen, fp, msg, path, st) ==
  WriteDispatched(gen, fp, path, Dispatch(gen, NewStringIO, msg, path, st))

\* Generator.flatten, line 147: w is what _write gave
Flattened(gen, w) ==
  [gen |-> gen, fp |-> w.fp, msg |-> w.msg, err |-> w.err, st |-> w.st]

\* Generator.flatten, lines 126-147; now is time.ctime(time.time())
FlattenSynthesized(gen, fp, msg, unixfrom, linesep, now, path, st) ==
  LET gen1 == IF Truthy(linesep) THEN [gen EXCEPT !.NL = linesep] ELSE gen
      ufrom == <<"F","r","o","m"," ","n","o","b","o","d","y"," ">> \o now
      fp1 == IF unixfrom THEN PrintItem(fp, ufrom \o gen1.NL) ELSE fp
      st1 == Logged(st, Ev("flatten", path, gen1))
      st2 == IF unixfrom THEN Logged(st1, Ev("unixfrom", path, ufrom)) ELSE st1
  IN Flattened(gen1, Write(gen1, fp1, msg, path, st2))

Flatten(gen, fp, msg, unixfrom, linesep, now, path, st) ==
  LET gen1 == IF Truthy(linesep) THEN [gen EXCEPT !.NL = linesep] ELSE gen
      ufrom == IF Truthy(msg.unixfrom) THEN msg.unixfrom
               ELSE <<"F","r","o","m"," ","n","o","b","o","d","y"," ">> \o now
      fp1 == IF unixfrom THEN PrintItem(fp, ufrom \o gen1.NL) ELSE fp
      st1 == Logged(st, Ev("flatten", path, gen1))
      st2 == IF unixfrom THEN Logged(st1, Ev("unixfrom", path, ufrom)) ELSE st1
  IN Flattened(gen1, Write(gen1, fp1, msg, path, st2))

(***************************************************************************)
(* The allocator as a process: candidate texts and its steps               *)
(***************************************************************************)
Tokens == 0..MaxToken

\* lines a body may hold: delimiter look-alikes of every candidate, near misses
CandLines ==
  UNION {
    { <<"-","-">> \o BoundaryOf(t),
      <<"-","-">> \o BoundaryOf(t) \o <<"-","-">>,
      <<"-","-">> \o BoundaryOf(t) \o <<".","0">>,
      <<"-","-">> \o BoundaryOf(t) \o <<".","1","-","-">> } : t \in Tokens }
  \cup { <<"h","e","l","l","o">>, <<>>,
         <<"-","-">> \o BoundaryOf(0) \o <<"-">>,
         <<" ","-","-">> \o BoundaryOf(0),
         <<"-","-">> \o BoundaryOf(0) \o <<CR>> }

RECURSIVE SeqsUpTo(_, _)
SeqsUpTo(S, n) ==
  IF n = 0 THEN {<<>>}
  ELSE LET shorter == SeqsUpTo(S, n - 1)
       IN shorter \cup {Append(q, x) : q \in shorter, x \in S}

CandTexts == {Join(ls, <<LF>>) : ls \in SeqsUpTo(CandLines, MaxLines)} \cup {None}

MbIdle == [pc |-> "idle", text |-> None, boundary |-> <<>>, b |-> <<>>,
           counter |-> 0, tests |-> 0]

MbInit == \E text \in CandTexts : mb = [MbIdle EXCEPT !.text = text]

\* the call enters: lines 431-436
MbEnter ==
  /\ mb.pc = "idle"
  /\ \E token \in Tokens : mb' = MakeBoundaryEnter(token, mb.text)

\* one loop iteration: lines 437-442
MbIter ==
  /\ mb.pc = "loop"
  /\ mb' = MakeBoundaryIter(mb)

(***************************************************************************)
(* Session: task results, ui.py lines 502-536                              *)
(***************************************************************************)
\* the threads that report tasks and the threads that wait for one
Reporters == {"r1", "r2"}
Waiters == {"w1", "w2"}
TaskNames == {"a", "b"}
Nobody == "nobody"

\* the arguments of a reporting thread that is in no call
NoArg == <<"a", None>>

\* Session.__init__, lines 509 and 513: wait_lock is a free Condition with
\* no thread waiting, task_results is empty; wait_for is the name each
\* waiting thread will pass to wait_for_task
SessionInit(wait_for) ==
  [task_results |-> <<>>,
   owner |-> Nobody,
   waiters |-> {},
   pc |-> [t \in Reporters \cup Waiters |-> IF t \in Reporters THEN "idle" ELSE "527"],
   arg |-> [r \in Reporters |-> NoArg],
   wait_for |-> wait_for,
   rv |-> [w \in Waiters |-> <<"unset">>],
   reported |-> <<>>]

\* the first i in range(0, len(task_results)) with task_results[i][0] ==
\* wait_for, counted from 1; 0 when the loop ends without one: lines 528-529
TaskIndexLast(results, name, i) ==
  IF \E j \in 1..Len(results) : results[j][1] = name THEN Len(results) ELSE 0

RECURSIVE TaskIndex(_, _, _)
TaskIndex(results, name, i) ==
  IF i > Len(results) THEN 0
  ELSE IF results[i][1] = name THEN i
  ELSE TaskIndex(results, name, i + 1)

\* list.pop(i): the list without its i-th element
PopAt(results, i) ==
  SubSeq(results, 1, i - 1) \o SubSeq(results, i + 1, Len(results))

\* the calls of report_task_completed and report_task_failed so far
ReportsBegun ==
  Len(session.reported) + Cardinality({r \in Reporters : session.pc[r] = "518"})

\* report_task_completed(name, result) or report_task_failed(name) is
\* called: line 517, wait_lock.acquire() returns when no thread owns the lock
ReportAcquire(r, name, result) ==
  /\ session.pc[r] = "idle"
  /\ ReportsBegun < MaxReports
  /\ session.owner = Nobody
  /\ session' = [session EXCEPT !.owner = r, !.pc[r] = "518",
                                !.arg[r] = <<name, result>>]

\* line 518: task_results.append((name, result))
ReportAppend(r) ==
  /\ session.pc[r] = "518"
  /\ session' = [session EXCEPT !.task_results = Append(@, session.arg[r]),
                                !.reported = Append(@, session.arg[r]),
                                !.pc[r] = "519"]

\* line 519: wait_lock.notify_all() wakes every thread that waits; each has
\* yet to take the lock again
ReportNotifyAll(r) ==
  /\ session.pc[r] = "519"
  /\ session' = [session EXCEPT
                   !.pc = [t \in DOMAIN @ |->
                             IF t = r THEN "520"
                             ELSE IF t \in session.waiters THEN "woken" ELSE @[t]],
                   !.waiters = {}]

\* line 520: wait_lock.release()
ReportRelease(r) ==
  /\ session.pc[r] = "520"
  /\ session' = [session EXCEPT !.owner = Nobody, !.pc[r] = "idle",
                                !.arg[r] = NoArg]

\* line 527: wait_lock.acquire()
WaitAcquire(w) ==
  /\ session.pc[w] = "527"
  /\ session.owner = Nobody
  /\ session' = [session EXCEPT !.owner = w, !.pc[w] = "528"]

\* lines 528-530: the loop finds an entry of the name and pops it
WaitPop(w) ==
  /\ session.pc[w] = "528"
  /\ \E i \in {TaskIndex(session.task_results, session.wait_for[w], 1)} :
       /\ i # 0
       /\ session' = [session EXCEPT !.task_results = PopAt(@, i),
                                     !.rv[w] = session.task_results[i][2],
                                     !.pc[w] = "531"]

\* lines 528-529, 535: the loop ends without an entry of the name;
\* wait_lock.wait() enrols the thread and gives the lock up
WaitWait(w) ==
  /\ session.pc[w] = "528"
  /\ TaskIndex(session.task_results, session.wait_for[w], 1) = 0
  /\ session' = [session EXCEPT !.owner = Nobody,
                                !.waiters = @ \cup {w},
                                !.pc[w] = "waiting"]

\* line 535: wait() returns once the woken thread has the lock again
WaitWoken(w) ==
  /\ session.pc[w] = "woken"
  /\ session.owner = Nobody
  /\ session' = [session EXCEPT !.owner = w, !.pc[w] = "536"]

\* line 536: wait_lock.release(), and the while loop starts over
WaitLoop(w) ==
  /\ session.pc[w] = "536"
  /\ session' = [session EXCEPT !.owner = Nobody, !.pc[w] = "527"]

\* line 531: wait_lock.release()
WaitRelease(w) ==
  /\ session.pc[w] = "531"
  /\ session' = [session EXCEPT !.owner = Nobody, !.pc[w] = "532"]

\* lines 532-533: ui.reset_marks(quiet=quiet), return rv
WaitReturn(w) ==
  /\ session.pc[w] = "532"
  /\ session' = [session EXCEPT !.pc[w] = "returned"]

\* a completed task reports a result of its own, a failed one reports None
ResultsOf(r) == { <<"result", ReportsBegun + 1>>, None }

ReporterStep(r) ==
  /\ UNCHANGED <<mb, ctor, generator, message, outfp, calls, ui>>
  /\ \/ \E name \in TaskNames, result \in ResultsOf(r) : ReportAcquire(r, name, result)
     \/ ReportAppend(r)
     \/ ReportNotifyAll(r)
     \/ ReportRelease(r)

WaiterStep(w) ==
  /\ UNCHANGED <<mb, ctor, generator, message, outfp, calls, ui>>
  /\ \/ WaitAcquire(w)
     \/ WaitPop(w)
     \/ WaitWait(w)
     \/ WaitWoken(w)
     \/ WaitLoop(w)
     \/ WaitRelease(w)
     \/ WaitReturn(w)

(***************************************************************************)
(* UserInteraction: the log buffer, ui.py lines 71-161                     *)
(***************************************************************************)
MAX_BUFFER_LEN == 150
LOG_URGENT == 0
LOG_RESULT == 5
LOG_WARNING == 30
LOG_PROGRESS == 40
LOG_DEBUG == 50
LOG_ALL == 99

\* UserInteraction.__init__, lines 85-93; turn is the message the next call
\* of log passes, displayed is what the last call gave to _display_log and
\* discarded how many entries it deleted from the buffer
UserInteractionInit ==
  [log_buffer |-> <<>>,
   log_buffering |-> FALSE,
   log_level |-> LOG_ALL,
   last_display |-> <<LOG_PROGRESS, 0>>,
   turn |-> 0,
   displayed |-> <<>>,
   discarded |-> 0]

\* _display_log(text, level), lines 110-132: what goes to stderr is kept as
\* the level, the text and whether a line feed was written before it
DisplayLog(u, text, level) ==
  [u EXCEPT !.displayed = Append(@, [level |-> level, text |-> text,
                                     newline |-> u.last_display[1] # LOG_PROGRESS]),
            !.last_display = <<level, Len(text)>>]

\* flush_log, lines 137-144: pops the entries from the front and displays
\* those of a level up to log_level
RECURSIVE FlushLog(_)
FlushLog(u) ==
  IF Len(u.log_buffer) = 0 THEN u
  ELSE LET entry == Head(u.log_buffer)
           u1 == [u EXCEPT !.log_buffer = Tail(@)]
       IN FlushLog(IF entry[1] <= u.log_level
                   THEN DisplayLog(u1, entry[2], entry[1])
                   ELSE u1)

\* log, lines 158-159: while the buffer is too long its first
\* MAX_BUFFER_LEN/10 entries are deleted
RECURSIVE TrimBuffer(_), TrimBufferNewest(_)
TrimBufferNewest(buffer) ==
  IF Len(buffer) > MAX_BUFFER_LEN
  THEN TrimBufferNewest(SubSeq(buffer, 1, Len(buffer) - MAX_BUFFER_LEN \div 10))
  ELSE buffer

TrimBuffer(buffer) ==
  IF Len(buffer) > MAX_BUFFER_LEN
  THEN TrimBuffer(SubSeq(buffer, MAX_BUFFER_LEN \div 10 + 1, Len(buffer)))
  ELSE buffer

\* a call begins: nothing is displayed or discarded yet
Called(u) == [u EXCEPT !.displayed = <<>>, !.discarded = 0]

\* block(), lines 146-148
UiBlock ==
  ui' = [DisplayLog(Called(ui), <<>>, LOG_URGENT) EXCEPT !.log_buffering = TRUE]

\* unblock(), lines 150-153
UiUnblock ==
  ui' = FlushLog([Called(ui) EXCEPT !.log_buffering = FALSE,
                                    !.last_display = <<LOG_RESULT, 0>>])

\* log(level, message), lines 155-161; text is the message
LogBuffered(u, buffer) ==
  [u EXCEPT !.log_buffer = buffer,
            !.discarded = Len(u.log_buffer) + 1 - Len(buffer)]

UiLog(level, text) ==
  \E u \in {[Called(ui) EXCEPT !.turn = (@ + 1) % LogPeriod]} :
    ui' = IF u.log_buffering
          THEN LogBuffered(u, TrimBuffer(Append(u.log_buffer, <<level, text>>)))
          ELSE IF level <= u.log_level THEN DisplayLog(u, text, level)
          ELSE u

\* flush_log(), lines 137-144
UiFlushLog == ui' = FlushLog(Called(ui))

\* clear_log(), lines 134-135
UiClearLog == ui' = [Called(ui) EXCEPT !.log_buffer = <<>>]

\* the caller sets the attribute log_level before it logs
LogLevels == {LOG_WARNING, LOG_ALL}

UiSetLogLevel ==
  /\ ui.log_buffer = <<>>
  /\ ~ui.log_buffering
  /\ \E level \in LogLevels \ {ui.log_level} :
       ui' = [Called(ui) EXCEPT !.log_level = level]

\* the message of a turn: the text of its number and one of three levels
LevelOfTurn(n) == <<LOG_URGENT, LOG_WARNING, LOG_DEBUG>>[(n % 3) + 1]

(***************************************************************************)
(* The messages the caller flattens                                        *)
(***************************************************************************)
Part(main, sub, hasct, boundary, headers, payload) ==
  [main |-> main, sub |-> sub, hasct |-> hasct, boundary |-> boundary,
   headers |-> headers, payload |-> payload,
   preamble |-> None, epilogue |-> None, unixfrom |-> None]

\* a part without a Content-Type header is text/plain
TextPart(payload) == Part(<<"t","e","x","t">>, <<"p","l","a","i","n">>, FALSE, None, <<>>, payload)

Multipart(sub, boundary, payload) ==
  Part(<<"m","u","l","t","i","p","a","r","t">>, sub, TRUE, boundary, <<>>, payload)

HSubject == HdrStr(<<"S","u","b","j","e","c","t">>, <<"h","i">>)
HFolded == HdrStr(<<"X","-","A">>, <<"a","\n"," ","b">>)
HEightBit == HdrStr(<<"X","-","B">>, <<"c", "\\xe9">>)
HLong == HdrStr(<<"X","-","L">>, <<"a","a","a","a","a","a","a","a","a"," ","b","b","b","b","b","b","b","b","b"," ","c","c","c","c","c","c","c","c","c"," ","d","d","d","d","d","d","d","d","d"," ","e","e","e","e","e","e","e","e","e"," ","f","f","f","f","f","f","f","f","f"," ","g","g","g","g","g","g","g","g","g"," ","h","h","h","h","h","h","h","h","h"," ","i","i","i">>)
HObject == HdrObj(<<"X","-","O">>, <<"o","\n"," ","p">>)

Hello == TextPart(PayStr(<<"h","e","l","l","o">>))
World == TextPart(PayStr(<<"w","o","r","l","d">>))
FromLines ==
  Part(<<"t","e","x","t">>, <<"p","l","a","i","n">>, TRUE, None, <<HSubject>>,
       PayStr(<<"F","r","o","m"," ","a","\n","x"," ","F","r","o","m"," ","b","\n","F","r","o","m"," ","c">>))
NotAString == TextPart(PayInt)
\* a body holding the delimiter lines of the boundary made from token 0
Collides0 == TextPart(PayStr(<<"-","-">> \o BoundaryOf(0) \o <<"\n","-","-">> \o BoundaryOf(0) \o <<".","0","-","-">>))

PresetBoundary == <<"B","N","D">>

\* the child lists of the flat multiparts
ChildLists ==
  { <<>>, <<Hello>>, <<Hello, World>>, <<FromLines, Collides0>>,
    <<Collides0, Hello, FromLines>> }

\* each list as a multipart without a boundary, and as one with a boundary,
\* a preamble and an epilogue
FlatMultiparts ==
  UNION {
    { Multipart(<<"m","i","x","e","d">>, None, PayList(ps)),
      [Multipart(<<"m","i","x","e","d">>, PresetBoundary, PayList(ps))
         EXCEPT !.preamble = <<"F","r","o","m"," ","p">>, !.epilogue = <<"e","\n","F","r","o","m"," ","e">>] }
    : ps \in ChildLists }

HelloWorld == Multipart(<<"m","i","x","e","d">>, None, PayList(<<Hello, World>>))

\* the same message with typed children
HelloWorldTyped ==
  Multipart(<<"m","i","x","e","d">>, None,
            PayList(<<Part(<<"t","e","x","t">>, <<"p","l","a","i","n">>, TRUE, None, <<>>, PayStr(<<"h","e","l","l","o">>)),
                      Part(<<"t","e","x","t">>, <<"p","l","a","i","n">>, TRUE, None, <<>>, PayStr(<<"w","o","r","l","d">>))>>))

\* parts to be signed: one with a header longer than a line
SignedChildren ==
  <<Part(<<"t","e","x","t">>, <<"p","l","a","i","n">>, TRUE, None, <<HLong>>, PayStr(<<"F","r","o","m"," ","s">>)), Hello>>

StatusBlock(hs) == Part(<<"t","e","x","t">>, <<"p","l","a","i","n">>, FALSE, None, hs, PayNone)

OtherMessages ==
  { HelloWorldTyped,
    \* single parts, with every kind of header value
    [Part(<<"t","e","x","t">>, <<"p","l","a","i","n">>, TRUE, None, <<HSubject, HFolded>>, PayStr(<<"F","r","o","m"," ","m","e","\n">>))
       EXCEPT !.unixfrom = <<"F","r","o","m"," ","a","@","b"," ","T","h","u"," ","J","a","n"," "," ","1"," ","0","0",":","0","0",":","0","0"," ","1","9","7","0">>],
    Part(<<"t","e","x","t">>, <<"h","t","m","l">>, TRUE, None, <<HEightBit, HObject>>, PayStr(<<"<","p",">">>)),
    Part(<<"a","p","p","l","i","c","a","t","i","o","n">>, <<"x","-","y">>, TRUE, None, <<HFolded>>, PayStr(<<"F","r","o","m"," ","z">>)),
    Part(<<"a","p","p","l","i","c","a","t","i","o","n">>, <<"x","-","y">>, TRUE, None, <<>>, PayList(<<Hello>>)),
    TextPart(PayNone),
    \* multiparts of other shapes
    Multipart(<<"m","i","x","e","d">>, None, PayNone),
    Multipart(<<"m","i","x","e","d">>, None, PayStr(<<"r","a","w","\n","-","-","x">>)),
    Multipart(<<"m","i","x","e","d">>, None, PayInt),
    [Multipart(<<"m","i","x","e","d">>, <<>>, PayList(<<Hello>>)) EXCEPT !.preamble = <<>>, !.epilogue = <<>>],
    Multipart(<<"m","i","x","e","d">>, PresetBoundary, PayList(<<TextPart(PayStr(<<"-","-","B","N","D">>))>>)),
    Multipart(<<"s","i","g","n","e","d">>, None, PayList(<<FromLines, Hello>>)),
    Multipart(<<"m","i","x","e","d">>, None,
              PayList(<<Multipart(<<"a","l","t","e","r","n","a","t","i","v","e">>, None, PayList(<<Hello, World>>)), World>>)),
    Multipart(<<"m","i","x","e","d">>, None,
              PayList(<<Hello, Multipart(<<"a","l","t","e","r","n","a","t","i","v","e">>, None, PayList(<<World, NotAString>>))>>)),
    Multipart(<<"m","i","x","e","d">>, None,
              PayList(<<Multipart(<<"a","l","t","e","r","n","a","t","i","v","e">>, None, PayList(<<Hello>>)), NotAString>>)),
    \* raw strings where a child list or a nested message is expected
    Multipart(<<"m","i","x","e","d">>, None,
              PayList(<<Multipart(<<"m","i","x","e","d">>, None, PayStr(<<"F","r","o","m"," ","r","a","w","\n","-","-","x">>)),
                        Part(<<"m","e","s","s","a","g","e">>, <<"r","f","c","8","2","2">>, TRUE, None, <<HSubject>>,
                             PayStr(<<"F","r","o","m"," ","m","\n","\n","b","o","d","y">>))>>)),
    \* parts inside that carry a From_ line of their own
    Multipart(<<"m","i","x","e","d">>, None,
              PayList(<<[Hello EXCEPT !.unixfrom = <<"F","r","o","m"," ","c","@","d"," ","F","r","i"," ","J","a","n"," "," ","2"," ","0","0",":","0","0",":","0","0"," ","1","9","7","0">>],
                        Part(<<"m","e","s","s","a","g","e">>, <<"r","f","c","8","2","2">>, TRUE, None, <<>>,
                             PayList(<<[World EXCEPT !.unixfrom = <<"F","r","o","m"," ","e","@","f"," ","S","a","t"," ","J","a","n"," "," ","3"," ","0","0",":","0","0",":","0","0"," ","1","9","7","0">>]>>))>>)),
    \* a multipart/signed and a multipart/mixed with the same content
    Multipart(<<"m","i","x","e","d">>, None,
              PayList(<<Multipart(<<"s","i","g","n","e","d">>, <<"S","B">>, PayList(SignedChildren)),
                        Multipart(<<"m","i","x","e","d">>, <<"S","B">>, PayList(SignedChildren))>>)),
    \* message/rfc822 and other message types
    Part(<<"m","e","s","s","a","g","e">>, <<"r","f","c","8","2","2">>, TRUE, None, <<>>, PayList(<<HelloWorld>>)),
    Part(<<"m","e","s","s","a","g","e">>, <<"r","f","c","8","2","2">>, TRUE, None, <<>>, PayList(<<NotAString>>)),
    Part(<<"m","e","s","s","a","g","e">>, <<"r","f","c","8","2","2">>, TRUE, None, <<>>, PayStr(<<"S","u","b","j","e","c","t",":"," ","r","a","w","\n","\n","b","o","d","y">>)),
    Part(<<"m","e","s","s","a","g","e">>, <<"p","a","r","t","i","a","l">>, TRUE, None, <<>>, PayStr(<<"F","r","o","m"," ","p","a","r","t">>)),
    Part(<<"m","e","s","s","a","g","e">>, <<"r","f","c","8","2","2">>, TRUE, None, <<>>, PayNone),
    \* message/delivery-status
    Part(<<"m","e","s","s","a","g","e">>, <<"d","e","l","i","v","e","r","y","-","s","t","a","t","u","s">>, TRUE, None, <<>>, PayList(<<>>)),
    Part(<<"m","e","s","s","a","g","e">>, <<"d","e","l","i","v","e","r","y","-","s","t","a","t","u","s">>, TRUE, None, <<>>,
         PayList(<<StatusBlock(<<HSubject>>)>>)),
    Part(<<"m","e","s","s","a","g","e">>, <<"d","e","l","i","v","e","r","y","-","s","t","a","t","u","s">>, TRUE, None, <<>>,
         PayList(<<StatusBlock(<<HSubject, HFolded>>), StatusBlock(<<HSubject>>)>>)),
    Part(<<"m","e","s","s","a","g","e">>, <<"d","e","l","i","v","e","r","y","-","s","t","a","t","u","s">>, TRUE, None, <<>>,
         PayList(<<StatusBlock(<<HFolded>>), StatusBlock(<<HSubject>>),
                   [StatusBlock(<<HEightBit>>) EXCEPT !.payload = PayStr(<<>>)]>>)),
    Part(<<"m","e","s","s","a","g","e">>, <<"d","e","l","i","v","e","r","y","-","s","t","a","t","u","s">>, TRUE, None, <<>>,
         PayList(<<StatusBlock(<<HSubject>>), StatusBlock(<<>>)>>)),
    Part(<<"m","e","s","s","a","g","e">>, <<"d","e","l","i","v","e","r","y","-","s","t","a","t","u","s">>, TRUE, None, <<>>, PayNone),
    Part(<<"m","e","s","s","a","g","e">>, <<"d","e","l","i","v","e","r","y","-","s","t","a","t","u","s">>, TRUE, None, <<>>, PayStr(<<"x">>)),
    Multipart(<<"r","e","p","o","r","t">>, None,
              PayList(<<Hello,
                        Part(<<"m","e","s","s","a","g","e">>, <<"d","e","l","i","v","e","r","y","-","s","t","a","t","u","s">>, TRUE, None, <<>>,
                             PayList(<<StatusBlock(<<HSubject>>), StatusBlock(<<HFolded>>)>>))>>))
  }

Messages == FlatMultiparts \cup OtherMessages

\* the multipart nodes of a tree that have no boundary: each may draw a token
RECURSIVE Unbounded(_)
RECURSIVE UnboundedIn(_)
UnboundedIn(parts) ==
  IF Len(parts) = 0 THEN 0 ELSE Unbounded(Head(parts)) + UnboundedIn(Tail(parts))
Unbounded(m) ==
  (IF m.main = <<"m","u","l","t","i","p","a","r","t">> /\ ~Truthy(m.boundary) THEN 1 ELSE 0)
    + UnboundedIn(m.payload.parts)

(***************************************************************************)
(* The caller: constructs a Generator, then flattens the message           *)
(***************************************************************************)
CRLF == <<CR, LF>>

\* time.ctime(time.time()) at the calls
Times == { <<"M","o","n"," ","N","o","v"," "," ","2"," ","2","2",":","0","0",":","0","0"," ","2","0","2","6">>, <<"M","o","n"," ","N","o","v"," "," ","2"," ","2","2",":","0","0",":","0","1"," ","2","0","2","6">> }

Init ==
  /\ mb = MbIdle
  /\ \E mangle \in BOOLEAN, maxheaderlen \in {0, DefaultMaxHeaderLen},
        linesep \in {None, CRLF} :
       /\ ctor = [mangle |-> mangle, maxheaderlen |-> maxheaderlen, linesep |-> linesep]
       /\ generator = GeneratorInit(mangle, maxheaderlen, linesep)
  /\ message \in Messages
  /\ outfp = NewStringIO
  /\ calls = <<>>
  /\ session = SessionInit([w \in Waiters |-> "a"])
  /\ ui = UserInteractionInit

\* g.flatten(msg, unixfrom, linesep)
FlattenCall(unixfrom, linesep, now, rs) ==
  /\ \E r \in {Flatten(generator, outfp, message, unixfrom, linesep, now, <<>>,
                       [rs |-> rs, log |-> <<>>])} :
        /\ generator' = r.gen
        /\ message' = r.msg
        /\ outfp' = r.fp
        /\ calls' = Append(calls,
             [unixfrom |-> unixfrom, linesep |-> linesep, now |-> now,
              before |-> message, after |-> r.msg, nl |-> r.gen.NL,
              out |-> SubSeq(r.fp.buf, Len(outfp.buf) + 1, Len(r.fp.buf)),
              err |-> r.err, log |-> r.st.log])
  /\ UNCHANGED <<mb, ctor, session, ui>>

\* the arguments and the environment of a call: the clock is read only to
\* synthesize a From_ line, a token is drawn per multipart without a boundary
SomeFlattenCall ==
  \E unixfrom \in BOOLEAN, linesep \in {None, CRLF} :
    \E now \in (IF unixfrom /\ ~Truthy(message.unixfrom) THEN Times ELSE {<<>>}) :
      \E rs \in [1..Unbounded(message) -> Tokens] :
        FlattenCall(unixfrom, linesep, now, rs)

\* the caller flattens the message, and then flattens it once more
FlattenFirst == calls = <<>> /\ SomeFlattenCall

FlattenAgain == Len(calls) = 1 /\ SomeFlattenCall

Next == FlattenFirst \/ FlattenAgain

Spec == Init /\ [][Next]_vars

InitBoundary ==
  /\ MbInit
  /\ ctor = [mangle |-> TRUE, maxheaderlen |-> DefaultMaxHeaderLen, linesep |-> None]
  /\ generator = GeneratorInit(TRUE, DefaultMaxHeaderLen, None)
  /\ message = TextPart(PayNone)
  /\ outfp = NewStringIO
  /\ calls = <<>>
  /\ session = SessionInit([w \in Waiters |-> "a"])
  /\ ui = UserInteractionInit

NextBoundary ==
  \/ MbEnter /\ UNCHANGED <<ctor, generator, message, outfp, calls, session, ui>>
  \/ MbIter /\ UNCHANGED <<ctor, generator, message, outfp, calls, session, ui>>
SpecBoundary == InitBoundary /\ [][NextBoundary]_vars

\* a call that has begun keeps running: the function is sequential code that
\* nothing suspends
SpecBoundaryFair == SpecBoundary /\ WF_vars(NextBoundary)

\* threads report tasks and wait for tasks of a session
InitSession ==
  /\ mb = MbIdle
  /\ ctor = [mangle |-> TRUE, maxheaderlen |-> DefaultMaxHeaderLen, linesep |-> None]
  /\ generator = GeneratorInit(TRUE, DefaultMaxHeaderLen, None)
  /\ message = TextPart(PayNone)
  /\ outfp = NewStringIO
  /\ calls = <<>>
  /\ \E wait_for \in [Waiters -> TaskNames] : session = SessionInit(wait_for)
  /\ ui = UserInteractionInit

NextSession ==
  \/ \E r \in Reporters : ReporterStep(r)
  \/ \E w \in Waiters : WaiterStep(w)

SpecSession == InitSession /\ [][NextSession]_vars

\* calls on a UserInteraction, one after the other
InitLog ==
  /\ mb = MbIdle
  /\ ctor = [mangle |-> TRUE, maxheaderlen |-> DefaultMaxHeaderLen, linesep |-> None]
  /\ generator = GeneratorInit(TRUE, DefaultMaxHeaderLen, None)
  /\ message = TextPart(PayNone)
  /\ outfp = NewStringIO
  /\ calls = <<>>
  /\ session = SessionInit([w \in Waiters |-> "a"])
  /\ ui = UserInteractionInit

NextLog ==
  /\ UNCHANGED <<mb, ctor, generator, message, outfp, calls, session>>
  /\ \/ UiSetLogLevel
     \/ UiBlock
     \/ UiUnblock
     \/ UiLog(LevelOfTurn(ui.turn), Str(ui.turn))
     \/ UiFlushLog
     \/ UiClearLog

SpecLog == InitLog /\ [][NextLog]_vars

\* every thread that can run keeps running: the interpreter schedules each
\* runnable thread, and a thread blocked on the lock gets it once the lock
\* stays free
SpecSessionFair ==
  /\ SpecSession
  /\ \A r \in Reporters : WF_vars(ReporterStep(r))
  /\ \A w \in Waiters : WF_vars(WaiterStep(w))

(***************************************************************************)
(* C1                                                                      *)
(***************************************************************************)
\* the lines of a text, as Python's multiline ^ and $ see them
LinesOf(t) == Split(t, <<LF>>)

\* C1: the token the allocator returns for a text collides with no line of
\* the text: no line equals --b or --b--
C1_NoCollision ==
  (mb.pc = "done" /\ mb.text # None) =>
    \A k \in 1..Len(LinesOf(mb.text)) :
      /\ LinesOf(mb.text)[k] # <<"-","-">> \o mb.b
      /\ LinesOf(mb.text)[k] # <<"-","-">> \o mb.b \o <<"-","-">>

\* a call returned a token after the base token and base.0 both collided
C1_Witness ==
  /\ mb.pc = "done"
  /\ mb.text # None
  /\ mb.counter = 2
  /\ mb.b = mb.boundary \o <<".","1">>
(***************************************************************************)
(* What the claims speak of                                                *)
(***************************************************************************)
\* the node of a tree at a path
RECURSIVE NodeAt(_, _)
NodeAt(m, p) ==
  IF Len(p) = 0 THEN m ELSE NodeAt(m.payload.parts[Head(p)], Tail(p))

\* the paths of the nodes of a tree
RECURSIVE PathsOf(_)
PathsOf(m) ==
  {<<>>} \cup UNION { {<<i>> \o q : q \in PathsOf(m.payload.parts[i])}
                      : i \in 1..Len(m.payload.parts) }

\* the events of one kind in the log of a call
EventsOf(c, e) == {c.log[k] : k \in {j \in 1..Len(c.log) : c.log[j].e = e}}

\* how often an event of one kind was logged for a path
CountOf(c, e, p) ==
  Cardinality({j \in 1..Len(c.log) : c.log[j].e = e /\ c.log[j].path = p})

\* the options of the serializer that flattened the part at a path
OptionsAt(c, p) == (CHOOSE ev \in EventsOf(c, "flatten") : ev.path = p).v

\* the separator the instance was constructed with
DefaultSeparator == IF Truthy(ctor.linesep) THEN ctor.linesep ELSE <<LF>>

\* a text with > put before every line that begins with From and a blank
RECURSIVE EscapeLines(_)
EscapeLines(ls) ==
  IF Len(ls) = 0 THEN <<>>
  ELSE <<IF MatchAt(Head(ls), 1, <<"F","r","o","m"," ">>) THEN <<">">> \o Head(ls) ELSE Head(ls)>>
         \o EscapeLines(Tail(ls))

Escaped(t) == Join(EscapeLines(LinesOf(t)), <<LF>>)

\* name: value lines, one per header, each ended by the separator
RECURSIVE PlainHeaderLines(_, _)
PlainHeaderLines(hs, nl) ==
  IF Len(hs) = 0 THEN <<>>
  ELSE Head(hs).h \o <<":"," ">> \o Replace(Head(hs).v, <<LF>>, nl) \o nl
         \o PlainHeaderLines(Tail(hs), nl)

(***************************************************************************)
(* C2                                                                      *)
(***************************************************************************)
\* the boundary each multipart node used in its delimiter lines
BoundariesUsed(c) == {<<ev.path, ev.v.boundary>> : ev \in EventsOf(c, "multipart")}

SecondPassAlike ==
  /\ Len(calls) = 2
  /\ calls[1].err = "ok"
  /\ calls[2].unixfrom = calls[1].unixfrom
  /\ calls[2].nl = calls[1].nl
  /\ (calls[1].unixfrom => Truthy(calls[1].before.unixfrom))

\* C2: a second flatten of the same tree under the same configuration, with
\* no synthesized From_ line, gives the output of the first, and every
\* multipart node uses the boundary it used in the first pass
C2_Idempotent ==
  SecondPassAlike =>
    /\ calls[2].err = "ok"
    /\ calls[2].out = calls[1].out
    /\ BoundariesUsed(calls[2]) = BoundariesUsed(calls[1])
    /\ calls[2].after = calls[1].after

\* a second pass over a tree in which the first pass allocated the boundary
\* of a nested multipart
C2_Witness ==
  /\ SecondPassAlike
  /\ \E ev \in EventsOf(calls[1], "set_boundary") : Len(ev.path) > 0
  /\ calls[2].out = calls[1].out
  /\ Len(calls[2].out) > 0

(***************************************************************************)
(* C3                                                                      *)
(***************************************************************************)
\* a text has a line, as the separator divides it
HasLine(t, nl, line) ==
  \E i \in 1..Len(t) :
    /\ i = 1 \/ MatchAt(t, i - Len(nl), nl)
    /\ MatchAt(t, i, line)
    /\ i + Len(line) = Len(t) + 1 \/ MatchAt(t, i + Len(line), nl)

LacksBoundary(n) ==
  n.main = <<"m","u","l","t","i","p","a","r","t">> /\ n.payload.k = "list" /\ ~Truthy(n.boundary)

\* C3: after a flatten call that returns, every multipart node with a child
\* list that lacked a boundary carries the boundary of its delimiter lines,
\* no node had its boundary set more than once, and a node that carried a
\* boundary keeps it
C3_BackFill ==
  \A k \in 1..Len(calls) :
    calls[k].err = "ok" =>
      \A p \in PathsOf(calls[k].before) :
        LET n == NodeAt(calls[k].before, p)
            n2 == NodeAt(calls[k].after, p)
        IN /\ LacksBoundary(n) =>
                /\ Truthy(n2.boundary)
                /\ CountOf(calls[k], "set_boundary", p) = 1
                /\ \E ev \in EventsOf(calls[k], "multipart") :
                     /\ ev.path = p
                     /\ ev.v.boundary = n2.boundary
                     /\ HasLine(ev.v.body, calls[k].nl, <<"-","-">> \o n2.boundary)
                     /\ HasLine(ev.v.body, calls[k].nl,
                                <<"-","-">> \o n2.boundary \o <<"-","-">>)
           /\ CountOf(calls[k], "set_boundary", p) <= 1
           /\ Truthy(n.boundary) =>
                /\ n2.boundary = n.boundary
                /\ CountOf(calls[k], "set_boundary", p) = 0

\* a call that returned after it set the boundaries of an outer and of a
\* nested multipart
C3_Witness ==
  \E k \in 1..Len(calls) :
    /\ calls[k].err = "ok"
    /\ LacksBoundary(calls[k].before)
    /\ \E p \in PathsOf(calls[k].before) :
         /\ Len(p) > 0
         /\ LacksBoundary(NodeAt(calls[k].before, p))
         /\ Truthy(NodeAt(calls[k].after, p).boundary)

(***************************************************************************)
(* C4                                                                      *)
(***************************************************************************)
\* the body the claim describes for a multipart node
MultipartShape(node, options, b, texts) ==
  LET nl == options.NL
      text(t) == IF options.mangle THEN Escaped(t) ELSE t
  IN (IF node.preamble # None THEN text(node.preamble) \o nl ELSE <<>>)
       \o <<"-","-">> \o b \o nl
       \o Join(texts, nl \o <<"-","-">> \o b \o nl)
       \o nl \o <<"-","-">> \o b \o <<"-","-">>
       \o (IF node.epilogue # None THEN nl \o text(node.epilogue) ELSE <<>>)

\* C4: the body of a multipart node is the preamble if any, the child
\* buffers in order between --B lines, the closing --B-- and the epilogue if
\* any, with nothing after --B-- when there is no epilogue
C4_MultipartShape ==
  \A k \in 1..Len(calls) :
    \A ev \in EventsOf(calls[k], "multipart") :
      LET node == NodeAt(calls[k].before, ev.path)
      IN /\ Len(ev.v.texts) = Len(node.payload.parts)
         /\ ev.v.body = MultipartShape(node, OptionsAt(calls[k], ev.path),
                                       ev.v.boundary, ev.v.texts)

\* a multipart with a preamble, three children and an epilogue was written
C4_Witness ==
  \E k \in 1..Len(calls) :
    \E ev \in EventsOf(calls[k], "multipart") :
      /\ Len(ev.v.texts) = 3
      /\ NodeAt(calls[k].before, ev.path).preamble # None
      /\ NodeAt(calls[k].before, ev.path).epilogue # None
      /\ calls[k].err = "ok"

(***************************************************************************)
(* C5                                                                      *)
(***************************************************************************)
\* the scenario: multipart/mixed of "hello" and "world", no mangling, LF
HelloWorldCall(c) ==
  /\ [c.before EXCEPT !.boundary = None] \in {HelloWorld, HelloWorldTyped}
  /\ ~ctor.mangle
  /\ c.nl = <<LF>>
  /\ ~c.unixfrom

\* the header block of the message, reporting the boundary b
HelloWorldHeaders(b) ==
  <<"C","o","n","t","e","n","t","-","T","y","p","e",":"," ","m","u","l","t","i","p","a","r","t","/","m","i","x","e","d",";"," ","b","o","u","n","d","a","r","y","=","\"">> \o b \o <<"\"","\n","\n">>

\* C5 as stated: the body is --B LF hello LF --B LF world LF --B--
C5_AsStated ==
  \A k \in 1..Len(calls) :
    HelloWorldCall(calls[k]) =>
      LET b == calls[k].after.boundary
      IN calls[k].out =
           HelloWorldHeaders(b)
             \o <<"-","-">> \o b \o <<"\n","h","e","l","l","o","\n","-","-">> \o b \o <<"\n","w","o","r","l","d","\n","-","-">> \o b \o <<"-","-">>

\* C5, amended: each child's header lines and the blank line that ends them
\* stand between the --B line and the child's payload
C5_HelloWorld ==
  \A k \in 1..Len(calls) :
    HelloWorldCall(calls[k]) =>
      LET b == calls[k].after.boundary
          h(i) == PlainHeaderLines(Items(calls[k].before.payload.parts[i]), <<LF>>)
      IN /\ calls[k].err = "ok"
         /\ Truthy(b)
         /\ calls[k].out =
              HelloWorldHeaders(b)
                \o <<"-","-">> \o b \o <<"\n">> \o h(1) \o <<"\n","h","e","l","l","o","\n","-","-">> \o b
                \o <<"\n">> \o h(2) \o <<"\n","w","o","r","l","d","\n","-","-">> \o b \o <<"-","-">>

\* the scenario was flattened, its boundary allocated by the call
C5_Witness ==
  \E k \in 1..Len(calls) :
    /\ HelloWorldCall(calls[k])
    /\ calls[k].before = HelloWorld
    /\ calls[k].err = "ok"
    /\ Truthy(calls[k].after.boundary)

(***************************************************************************)
(* C6                                                                      *)
(***************************************************************************)
\* C6: a call that passes no line_separator writes with the separator the
\* instance was constructed with, whatever an earlier call passed
C6_SeparatorPerCall ==
  \A k \in 1..Len(calls) :
    (calls[k].linesep = None /\ calls[k].err = "ok") =>
      /\ calls[k].nl = DefaultSeparator
      /\ (DefaultSeparator = <<LF>> =>
            \A i \in 1..Len(calls[k].out) : calls[k].out[i] # CR)

(***************************************************************************)
(* C7                                                                      *)
(***************************************************************************)
\* C7: with max header length 0 a single part is written as its name: value
\* lines, the line breaks inside a value replaced by the separator, then the
\* blank line
C7_NoWrapHeaders ==
  \A k \in 1..Len(calls) :
    (/\ ctor.maxheaderlen = 0
     /\ calls[k].err = "ok"
     /\ ~calls[k].unixfrom
     /\ calls[k].before.main # <<"m","u","l","t","i","p","a","r","t">>)
    => MatchAt(calls[k].out, 1,
               PlainHeaderLines(Items(calls[k].before), calls[k].nl) \o calls[k].nl)

(***************************************************************************)
(* C8                                                                      *)
(***************************************************************************)
\* C8: what the text handler writes for a part is the payload with > put
\* before every line that begins with From and a blank when mangling is on,
\* so that no written line begins so, and the payload itself when it is off
C8_FromMangling ==
  \A k \in 1..Len(calls) :
    \A ev \in EventsOf(calls[k], "text") :
      LET payload == NodeAt(calls[k].before, ev.path).payload.s
          written == LinesOf(ev.v)
      IN IF ctor.mangle
         THEN /\ ev.v = Escaped(payload)
              /\ \A i \in 1..Len(written) : ~MatchAt(written[i], 1, <<"F","r","o","m"," ">>)
         ELSE ev.v = payload

\* a payload with From at the start of its first and of a later line, and
\* once inside a line, was written with mangling on
C8_Witness ==
  \E k \in 1..Len(calls) :
    \E ev \in EventsOf(calls[k], "text") :
      /\ ctor.mangle
      /\ NodeAt(calls[k].before, ev.path).payload.s = <<"F","r","o","m"," ","a","\n","x"," ","F","r","o","m"," ","b","\n","F","r","o","m"," ","c">>
      /\ ev.v = <<">","F","r","o","m"," ","a","\n","x"," ","F","r","o","m"," ","b","\n",">","F","r","o","m"," ","c">>

(***************************************************************************)
(* C9                                                                      *)
(***************************************************************************)
\* the header lines of a part as the serializer writes them, without the
\* blank line that ends the block
RECURSIVE HeaderLinesOf(_, _)
HeaderLinesOf(options, hs) ==
  IF Len(hs) = 0 THEN <<>>
  ELSE WriteHeader(options, NewStringIO, Head(hs)).fp.buf
         \o HeaderLinesOf(options, Tail(hs))

\* the blank lines of a text: the empty lines but the one a final
\* separator leaves
BlankLines(t, nl) ==
  LET ls == Split(t, nl) IN {i \in 1..(Len(ls) - 1) : ls[i] = <<>>}

HeaderOnly(n) == n.payload.k = "none" \/ (n.payload.k = "str" /\ n.payload.s = <<>>)

\* C9: the body of a message/delivery-status part is the header lines of its
\* children joined by the separator: one blank line between consecutive
\* children and none after the last
C9_StatusSpacing ==
  \A k \in 1..Len(calls) :
    \A ev \in EventsOf(calls[k], "delivery_status") :
      LET node == NodeAt(calls[k].before, ev.path)
          kids == node.payload.parts
          options == OptionsAt(calls[k], ev.path)
          blocks == [i \in 1..Len(kids) |-> HeaderLinesOf(options, Items(kids[i]))]
          blank == BlankLines(ev.v, options.NL)
      IN (\A i \in 1..Len(kids) : HeaderOnly(kids[i])) =>
           /\ ev.v = Join(blocks, options.NL)
           /\ (\A i \in 1..Len(kids) : Len(Items(kids[i])) > 0) =>
                /\ Cardinality(blank) = (IF Len(kids) = 0 THEN 0 ELSE Len(kids) - 1)
                /\ \A i \in blank : i > 1 /\ (i - 1) \notin blank

\* a delivery status of three header-only children was written
C9_Witness ==
  \E k \in 1..Len(calls) :
    \E ev \in EventsOf(calls[k], "delivery_status") :
      /\ Len(NodeAt(calls[k].before, ev.path).payload.parts) = 3
      /\ Cardinality(BlankLines(ev.v, calls[k].nl)) = 2
      /\ calls[k].err = "ok"

(***************************************************************************)
(* C10                                                                     *)
(***************************************************************************)
\* the text handler reached a part whose payload is there and is no string
ReachedNonString(c) ==
  \E ev \in EventsOf(c, "dispatch") :
    /\ ev.v \in {<<"t","e","x","t">>, <<"_","w","r","i","t","e","B","o","d","y">>}
    /\ NodeAt(c.before, ev.path).payload.k \notin {"none", "str"}

\* C10: when the text handler reaches a payload that is no string the call
\* fails with a type error, no part was handled twice, and without a From_
\* line nothing was written to the output file
C10_TypeError ==
  \A k \in 1..Len(calls) :
    ReachedNonString(calls[k]) =>
      /\ calls[k].err = "TypeError"
      /\ \A ev \in EventsOf(calls[k], "dispatch") :
           CountOf(calls[k], "dispatch", ev.path) = 1
      /\ ~calls[k].unixfrom => calls[k].out = <<>>

\* a part two levels down had a payload that is no string, and the call
\* failed having written nothing
C10_Witness ==
  \E k \in 1..Len(calls) :
    /\ \E ev \in EventsOf(calls[k], "dispatch") :
         /\ Len(ev.path) = 2
         /\ ev.v = <<"t","e","x","t">>
         /\ NodeAt(calls[k].before, ev.path).payload.k = "int"
    /\ calls[k].err = "TypeError"
    /\ ~calls[k].unixfrom
    /\ calls[k].out = <<>>

(***************************************************************************)
(* C11                                                                     *)
(***************************************************************************)
Multipartite(n) == n.main = <<"m","u","l","t","i","p","a","r","t">>

\* a node whose body is a raw string where a child list or a nested message
\* is expected
RawString(n) ==
  /\ n.payload.k = "str"
  /\ \/ Multipartite(n)
     \/ n.main = <<"m","e","s","s","a","g","e">> /\ n.sub = <<"r","f","c","8","2","2">>

\* C11: a multipart node and a message/rfc822 node whose body is a raw string
\* are written without an exception of the handler, the body written is that
\* string, and no boundary is made for the node or set on it
C11_RawStringBody ==
  \A k \in 1..Len(calls) :
    \A ev \in EventsOf(calls[k], "dispatch") :
      LET n == NodeAt(calls[k].before, ev.path)
      IN RawString(n) =>
           /\ \E b \in EventsOf(calls[k], "body") :
                b.path = ev.path /\ b.v = n.payload.s
           /\ CountOf(calls[k], "body", ev.path) = 1
           /\ CountOf(calls[k], "set_boundary", ev.path) = 0
           /\ CountOf(calls[k], "multipart", ev.path) = 0
           /\ calls[k].err = "ok" =>
                NodeAt(calls[k].after, ev.path).boundary = n.boundary

\* a multipart and a message/rfc822 with raw strings that begin with From
\* were written as children of a multipart, with mangling on
C11_Witness ==
  \E k \in 1..Len(calls) :
    /\ ctor.mangle
    /\ calls[k].err = "ok"
    /\ \E b \in EventsOf(calls[k], "body") :
         /\ b.path = <<1>>
         /\ Multipartite(NodeAt(calls[k].before, <<1>>))
         /\ b.v = <<"F","r","o","m"," ","r","a","w","\n","-","-","x">>
    /\ \E b \in EventsOf(calls[k], "body") :
         /\ b.path = <<2>>
         /\ NodeAt(calls[k].before, <<2>>).main = <<"m","e","s","s","a","g","e">>
         /\ b.v = <<"F","r","o","m"," ","m","\n","\n","b","o","d","y">>

(***************************************************************************)
(* C12                                                                     *)
(***************************************************************************)
\* the handler C12 names for a content type: message/rfc822 has a handler of
\* its own, other message subtypes fall to the default handler
HandlerAsStated(n) ==
  IF n.main = <<"m","u","l","t","i","p","a","r","t">> /\ n.sub = <<"s","i","g","n","e","d">> THEN <<"m","u","l","t","i","p","a","r","t","_","s","i","g","n","e","d">>
  ELSE IF n.main = <<"m","e","s","s","a","g","e">> /\ n.sub = <<"d","e","l","i","v","e","r","y","-","s","t","a","t","u","s">>
  THEN <<"m","e","s","s","a","g","e","_","d","e","l","i","v","e","r","y","_","s","t","a","t","u","s">>
  ELSE IF n.main = <<"m","e","s","s","a","g","e">> /\ n.sub = <<"r","f","c","8","2","2">> THEN <<"m","e","s","s","a","g","e">>
  ELSE IF n.main = <<"t","e","x","t">> THEN <<"t","e","x","t">>
  ELSE IF n.main = <<"m","u","l","t","i","p","a","r","t">> THEN <<"m","u","l","t","i","p","a","r","t">>
  ELSE <<"_","w","r","i","t","e","B","o","d","y">>

\* the same with a handler for the main type message
HandlerAmended(n) ==
  IF n.main = <<"m","u","l","t","i","p","a","r","t">> /\ n.sub = <<"s","i","g","n","e","d">> THEN <<"m","u","l","t","i","p","a","r","t","_","s","i","g","n","e","d">>
  ELSE IF n.main = <<"m","e","s","s","a","g","e">> /\ n.sub = <<"d","e","l","i","v","e","r","y","-","s","t","a","t","u","s">>
  THEN <<"m","e","s","s","a","g","e","_","d","e","l","i","v","e","r","y","_","s","t","a","t","u","s">>
  ELSE IF n.main = <<"t","e","x","t">> THEN <<"t","e","x","t">>
  ELSE IF n.main = <<"m","u","l","t","i","p","a","r","t">> THEN <<"m","u","l","t","i","p","a","r","t">>
  ELSE IF n.main = <<"m","e","s","s","a","g","e">> THEN <<"m","e","s","s","a","g","e">>
  ELSE <<"_","w","r","i","t","e","B","o","d","y">>

\* every part that is flattened is dispatched, once
DispatchedOnce(c) ==
  \A f \in EventsOf(c, "flatten") : CountOf(c, "dispatch", f.path) = 1

\* C12 as stated: the handler of a part is the one HandlerAsStated names
C12_AsStated ==
  \A k \in 1..Len(calls) :
    /\ DispatchedOnce(calls[k])
    /\ \A ev \in EventsOf(calls[k], "dispatch") :
         ev.v = HandlerAsStated(NodeAt(calls[k].before, ev.path))

\* C12, amended: the handler of a part is the exact one for multipart/signed
\* and message/delivery-status, else the one of the main type for text,
\* multipart and message, else the default text handler; a handler is always
\* found
C12_HandlerSelection ==
  \A k \in 1..Len(calls) :
    /\ DispatchedOnce(calls[k])
    /\ \A ev \in EventsOf(calls[k], "dispatch") :
         ev.v = HandlerAmended(NodeAt(calls[k].before, ev.path))

\* a message/partial part was given to the message handler, which wrote it
C12_Witness ==
  \E k \in 1..Len(calls) :
    \E ev \in EventsOf(calls[k], "dispatch") :
      /\ NodeAt(calls[k].before, ev.path).sub = <<"p","a","r","t","i","a","l">>
      /\ ev.v = <<"m","e","s","s","a","g","e">>
      /\ CountOf(calls[k], "body", ev.path) = 1

(***************************************************************************)
(* C13                                                                     *)
(***************************************************************************)
\* the From_ line of a call: the one the root part carries, else one made
\* from the clock
FromLineOf(c) ==
  IF Truthy(c.before.unixfrom) THEN c.before.unixfrom
  ELSE <<"F","r","o","m"," ","n","o","b","o","d","y"," ">> \o c.now

\* the output file was at the start of a line when the k-th call began: no
\* earlier call broke off inside a header line
AtLineStart(k) == \A j \in 1..(k - 1) : calls[j].err = "ok"

\* C13: with unixfrom one From_ line is written, first of all, the root
\* part's own if it has one and a synthesized one otherwise; without
\* unixfrom none is written; the parts inside never get one, not even the
\* one they carry
C13_UnixFrom ==
  \A k \in 1..Len(calls) :
    LET c == calls[k]
    IN /\ \A ev \in EventsOf(c, "unixfrom") : ev.path = <<>> /\ ev.v = FromLineOf(c)
       /\ CountOf(c, "unixfrom", <<>>) = (IF c.unixfrom THEN 1 ELSE 0)
       /\ (c.unixfrom /\ AtLineStart(k)) => MatchAt(c.out, 1, FromLineOf(c) \o c.nl)
       /\ ~c.unixfrom => ~MatchAt(c.out, 1, <<"F","r","o","m"," ">>)
       /\ \A p \in PathsOf(c.before) :
            (p # <<>> /\ Truthy(NodeAt(c.before, p).unixfrom)) =>
              ~HasLine(c.out, c.nl, NodeAt(c.before, p).unixfrom)

\* a call with unixfrom wrote a synthesized From_ line for a root whose
\* parts, one and two levels down, carry From_ lines of their own
C13_Witness ==
  \E k \in 1..Len(calls) :
    /\ calls[k].unixfrom
    /\ calls[k].err = "ok"
    /\ ~Truthy(calls[k].before.unixfrom)
    /\ MatchAt(calls[k].out, 1, <<"F","r","o","m"," ","n","o","b","o","d","y"," ">>)
    /\ \E p \in PathsOf(calls[k].before) :
         Len(p) = 2 /\ Truthy(NodeAt(calls[k].before, p).unixfrom)

(***************************************************************************)
(* C14                                                                     *)
(***************************************************************************)
\* the parts directly inside the part at a path that were flattened
ChildFlattens(c, p) ==
  {f \in EventsOf(c, "flatten") : Len(f.path) = Len(p) + 1 /\ MatchAt(f.path, 1, p)}

\* C14: a multipart/signed node is written as the generic multipart handler
\* writes a node of the same content: the same body for the same boundary,
\* a boundary set only when there was none, its parts flattened under the
\* options of the node's serializer, and the serializer's options as they
\* were constructed
C14_SignedAsGeneric ==
  /\ generator.maxheaderlen = ctor.maxheaderlen
  /\ generator.mangle = ctor.mangle
  /\ \A k \in 1..Len(calls) :
       \A d \in EventsOf(calls[k], "dispatch") :
         d.v = <<"m","u","l","t","i","p","a","r","t","_","s","i","g","n","e","d">> =>
           LET c == calls[k]
               n == NodeAt(c.before, d.path)
           IN /\ \A f \in ChildFlattens(c, d.path) : f.v = OptionsAt(c, d.path)
              /\ OptionsAt(c, d.path).maxheaderlen = ctor.maxheaderlen
              /\ CountOf(c, "set_boundary", d.path) <= (IF LacksBoundary(n) THEN 1 ELSE 0)
              /\ \A ev \in EventsOf(c, "multipart") :
                   ev.path = d.path =>
                     /\ ev.v.body = MultipartShape(n, OptionsAt(c, d.path),
                                                   ev.v.boundary, ev.v.texts)
                     /\ CountOf(c, "set_boundary", d.path)
                          = (IF LacksBoundary(n) THEN 1 ELSE 0)
                     /\ \A ev2 \in EventsOf(c, "multipart") :
                          (/\ [NodeAt(c.before, ev2.path) EXCEPT !.sub = n.sub] = n
                           /\ ev2.v.boundary = ev.v.boundary)
                          => ev2.v = ev.v

\* a multipart/signed and a multipart/mixed of the same content, one part of
\* which has a header longer than a line, were written alike by a serializer
\* that folds headers
C14_Witness ==
  \E k \in 1..Len(calls) :
    \E ev \in EventsOf(calls[k], "multipart"), ev2 \in EventsOf(calls[k], "multipart") :
      /\ ctor.maxheaderlen = DefaultMaxHeaderLen
      /\ NodeAt(calls[k].before, ev.path).sub = <<"s","i","g","n","e","d">>
      /\ NodeAt(calls[k].before, ev2.path).sub = <<"m","i","x","e","d">>
      /\ Len(ev2.path) = 1
      /\ ev2.v = ev.v
      /\ calls[k].err = "ok"

(***************************************************************************)
(* C15                                                                     *)
(***************************************************************************)
\* C15: the parts inside a multipart/signed node are written with their
\* headers unfolded, name: value, whatever the max header length
C15_SignedUnwrapped ==
  \A k \in 1..Len(calls) :
    \A ev \in EventsOf(calls[k], "multipart") :
      LET n == NodeAt(calls[k].after, ev.path)
      IN n.sub = <<"s","i","g","n","e","d">> =>
           \A i \in 1..Len(ev.v.texts) :
             MatchAt(ev.v.texts[i], 1,
                     PlainHeaderLines(Items(n.payload.parts[i]), calls[k].nl)
                       \o calls[k].nl)

(***************************************************************************)
(* C16                                                                     *)
(***************************************************************************)
\* a rendered part has a line that reads as a delimiter of the boundary b
Collides(text, nl, b) ==
  \/ HasLine(text, nl, <<"-","-">> \o b)
  \/ HasLine(text, nl, <<"-","-">> \o b \o <<"-","-">>)

\* C16: the boundary in the delimiter lines of a multipart node, pre-set or
\* allocated, collides with no line of the node's rendered parts
C16_BoundaryFree ==
  \A k \in 1..Len(calls) :
    \A ev \in EventsOf(calls[k], "multipart") :
      \A i \in 1..Len(ev.v.texts) :
        ~Collides(ev.v.texts[i], calls[k].nl, ev.v.boundary)

(***************************************************************************)
(* C17                                                                     *)
(***************************************************************************)
\* C17: every part inside, at any depth and under any handler, is flattened
\* under the options of the outermost call: the mangle-from policy and max
\* header length the serializer was constructed with and the separator in
\* effect for the call
C17_CloneOptions ==
  \A k \in 1..Len(calls) :
    \A f \in EventsOf(calls[k], "flatten") :
      /\ f.v.mangle = ctor.mangle
      /\ f.v.maxheaderlen = ctor.maxheaderlen
      /\ f.v.NL = calls[k].nl
      /\ f.v = OptionsAt(calls[k], <<>>)
      /\ f.path # <<>> =>
           f.v = OptionsAt(calls[k], SubSeq(f.path, 1, Len(f.path) - 1))

\* parts one and two levels down, in a multipart, a message/rfc822 and a
\* message/delivery-status, were flattened with CR LF, no mangling and no
\* folding, none of which a new serializer has by default
C17_Witness ==
  \E k \in 1..Len(calls) :
    /\ ~ctor.mangle /\ ctor.maxheaderlen = 0 /\ calls[k].nl = CRLF
    /\ calls[k].err = "ok"
    /\ \E f \in EventsOf(calls[k], "flatten") :
         /\ Len(f.path) = 2
         /\ NodeAt(calls[k].before, SubSeq(f.path, 1, 1)).main = <<"m","e","s","s","a","g","e">>

(***************************************************************************)
(* C18                                                                     *)
(***************************************************************************)
\* where in the log of a call the event of one kind for a path stands
IndexOfEvent(c, e, p) ==
  CHOOSE j \in 1..Len(c.log) : c.log[j].e = e /\ c.log[j].path = p

\* the event of one kind for a path
EventAt(c, e, p) == c.log[IndexOfEvent(c, e, p)]

Contains(t, s) == \E i \in 1..(Len(t) - Len(s) + 1) : MatchAt(t, i, s)

\* the header block and the buffered body of a part, as they were written
PartWritten(c, p) == EventAt(c, "headers", p).v \o EventAt(c, "body", p).v

\* the output of the root part is what the call wrote after the From_ line
RootOutput(c) ==
  IF c.unixfrom
  THEN SubSeq(c.out, Len(FromLineOf(c) \o c.nl) + 1, Len(c.out))
  ELSE c.out

\* the output of a part inside is what its parent got from flattening it,
\* where the log of the parent keeps it: a multipart parent's text of that
\* part, a message parent's whole body
ParentKeeps(c, p) ==
  /\ p # <<>>
  /\ LET q == SubSeq(p, 1, Len(p) - 1)
     IN \/ CountOf(c, "multipart", q) = 1
        \/ CountOf(c, "body", q) = 1 /\ EventAt(c, "dispatch", q).v = <<"m","e","s","s","a","g","e">>

InnerOutput(c, p) ==
  LET q == SubSeq(p, 1, Len(p) - 1)
  IN IF CountOf(c, "multipart", q) = 1
     THEN EventAt(c, "multipart", q).v.texts[p[Len(p)]]
     ELSE EventAt(c, "body", q).v

\* the header block of a part is written once, after its body handler
\* returned
HeadersAfterBody(c, p) ==
  /\ CountOf(c, "headers", p) = 1
  /\ CountOf(c, "body", p) = 1
  /\ IndexOfEvent(c, "dispatch", p) < IndexOfEvent(c, "body", p)
  /\ IndexOfEvent(c, "body", p) < IndexOfEvent(c, "headers", p)
  /\ \A j \in 1..Len(c.log) :
       (Len(c.log[j].path) > Len(p) /\ SubSeq(c.log[j].path, 1, Len(p)) = p) =>
         j < IndexOfEvent(c, "headers", p)

\* the header block of a multipart is written after the boundary was
\* resolved and reports the boundary of the delimiter lines
BoundaryReported(c, p) ==
  CountOf(c, "multipart", p) = 1 =>
    LET b == EventAt(c, "multipart", p).v.boundary
    IN /\ IndexOfEvent(c, "multipart", p) < IndexOfEvent(c, "headers", p)
       /\ CountOf(c, "set_boundary", p) = 1 =>
            /\ EventAt(c, "set_boundary", p).v = b
            /\ IndexOfEvent(c, "set_boundary", p) < IndexOfEvent(c, "headers", p)
       /\ Contains(EventAt(c, "headers", p).v, <<"b","o","u","n","d","a","r","y","=","\"">> \o b \o <<"\"">>)
       /\ Contains(EventAt(c, "body", p).v, <<"-","-">> \o b \o <<"-","-">>)

\* C18: the header block of a part is written only after the body handler
\* of the part has completed; the output of the part is the header lines,
\* one blank line that is the separator alone, and the buffered body; the
\* header block of a multipart is written after its boundary was resolved
\* and reports the boundary of the delimiter lines of the body
C18_HeadersAfterBody ==
  \A k \in 1..Len(calls) :
    LET c == calls[k]
    IN \A h \in EventsOf(c, "headers") :
         LET p == h.path
         IN /\ HeadersAfterBody(c, p)
            /\ (p # <<>> \/ AtLineStart(k)) =>
                 h.v = HeaderLinesOf(OptionsAt(c, p), Items(NodeAt(c.after, p)))
                         \o c.nl
            /\ (p = <<>> /\ AtLineStart(k)) => RootOutput(c) = PartWritten(c, p)
            /\ ParentKeeps(c, p) => InnerOutput(c, p) = PartWritten(c, p)
            /\ BoundaryReported(c, p)

\* a multipart inside a multipart had its boundary allocated by the call,
\* and its header block, with headers of its own, was written with CR LF
C18_Witness ==
  \E k \in 1..Len(calls) :
    LET c == calls[k]
    IN /\ c.err = "ok" /\ c.nl = CRLF
       /\ \E h \in EventsOf(c, "headers") :
            /\ Len(h.path) = 1
            /\ CountOf(c, "set_boundary", h.path) = 1
            /\ CountOf(c, "multipart", <<>>) = 1
            /\ Len(EventAt(c, "body", h.path).v) > 0

(***************************************************************************)
(* C19                                                                     *)
(***************************************************************************)
\* the candidates in the order of the claim: base, base.0, base.1, ...
Candidate(base, n) == IF n = 0 THEN base ELSE base \o <<".">> \o Str(n - 1)

\* a candidate collides with a text when a line of the text is --b or --b--
LineCollides(text, b) ==
  LET ls == LinesOf(text)
  IN \E k \in 1..Len(ls) : ls[k] \in { <<"-","-">> \o b, <<"-","-">> \o b \o <<"-","-">> }

\* in the loop after t tests the candidate is the t-th of the sequence and
\* all before it were tested and collide
TestedInOrder ==
  mb.pc = "loop" =>
    /\ mb.b = Candidate(mb.boundary, mb.tests)
    /\ mb.counter = mb.tests
    /\ \A n \in 0..(mb.tests - 1) : LineCollides(mb.text, Candidate(mb.boundary, n))

\* the token returned is the first candidate that does not collide, found
\* by testing the ones before it and itself; without a text it is the base
\* token and nothing was tested
FirstFreeReturned ==
  mb.pc = "done" =>
    IF mb.text = None THEN mb.b = mb.boundary /\ mb.tests = 0
    ELSE /\ mb.tests >= 1
         /\ mb.b = Candidate(mb.boundary, mb.tests - 1)
         /\ ~LineCollides(mb.text, mb.b)
         /\ \A n \in 0..(mb.tests - 2) :
              LineCollides(mb.text, Candidate(mb.boundary, n))

\* C19: the allocator terminates for every candidate text; it tests base,
\* base.0, base.1, ... in that order and returns the first that does not
\* collide, the base token untested when no text is given
C19_Terminates ==
  /\ [](TestedInOrder /\ FirstFreeReturned)
  /\ <>(mb.pc = "done")

\* a call returned base.0 after two tests: the base token collided with a
\* closing delimiter line of the text, and base.1, never tested, collides too
C19_Witness ==
  /\ mb.pc = "done"
  /\ mb.tests = 2
  /\ mb.b = mb.boundary \o <<".","0">>
  /\ LineCollides(mb.text, mb.boundary)
  /\ ~Contains(mb.text, <<"-","-">> \o mb.boundary \o <<LF>>)
  /\ Len(LinesOf(mb.text)) = 2

(***************************************************************************)
(* C20                                                                     *)
(***************************************************************************)
\* wait_for_task has its return value: the thread is past line 530
HasResult(w) == session.pc[w] \in {"531", "532", "returned"}

\* the reports made so far for a name
ReportsOf(name) ==
  {i \in 1..Len(session.reported) : session.reported[i][1] = name}

\* a value is returned only if it was reported for the name waited for, and
\* no more threads have a value for a name than reports were made for it
ReturnedWasReported ==
  /\ \A w \in Waiters :
       HasResult(w) =>
         \E i \in ReportsOf(session.wait_for[w]) :
           session.reported[i][2] = session.rv[w]
  /\ \A name \in TaskNames :
       Cardinality({w \in Waiters : HasResult(w) /\ session.wait_for[w] = name})
         <= Cardinality(ReportsOf(name))

\* a thread that has returned, or waits, does not own the lock
LockGivenBack ==
  \A w \in Waiters :
    session.pc[w] \in {"532", "returned", "waiting", "woken", "527"} =>
      session.owner # w

\* the step in which a waiting thread gets its value removes one entry of
\* its name from task_results, the one whose result it returns, and leaves
\* all others in place and in order; no other step of such a thread changes
\* task_results
PopsItsEntry ==
  \A w \in Waiters :
    IF ~HasResult(w) /\ HasResult(w)'
    THEN \E i \in 1..Len(session.task_results) :
           /\ session.task_results[i][1] = session.wait_for[w]
           /\ session.rv'[w] = session.task_results[i][2]
           /\ session.task_results' = PopAt(session.task_results, i)
    ELSE session.pc'[w] # session.pc[w] =>
           session.task_results' = session.task_results

\* the only waiter for its name
SingleWaiter(w) ==
  \A v \in Waiters : session.wait_for[v] = session.wait_for[w] => v = w

\* C20: wait_for_task returns only a result reported for its name (None for
\* a failed task) and not before the report exists; it removes that one
\* entry and leaves the others in place and in order; once a report for a
\* name is made, a single waiter for the name returns in the end, and the
\* lock is free afterwards
C20_WaitForTask ==
  /\ [](ReturnedWasReported /\ LockGivenBack)
  /\ [][PopsItsEntry]_vars
  /\ \A w \in Waiters :
       (SingleWaiter(w) /\ ReportsOf(session.wait_for[w]) # {})
         ~> (session.pc[w] = "returned")
  /\ <>[](session.owner = Nobody)

\* the only waiter for its name returned the None of a failed task, the
\* second of two entries, and the entry of the other name before it stayed
\* in place for the other waiter, who has not returned; the lock is free
C20_Witness ==
  \E w \in Waiters :
    /\ session.pc[w] = "returned"
    /\ SingleWaiter(w)
    /\ session.rv[w] = None
    /\ Len(session.reported) = 2
    /\ session.reported[2][1] = session.wait_for[w]
    /\ session.reported[1][1] # session.wait_for[w]
    /\ session.task_results = <<session.reported[1]>>
    /\ \A v \in Waiters \ {w} : session.pc[v] # "returned"
    /\ session.owner = Nobody

(***************************************************************************)
(* C21                                                                     *)
(***************************************************************************)
\* the step is a call of log made while buffering is on
LogWhileBuffering == ui.log_buffering /\ ui'.turn # ui.turn

\* a sequence is what another keeps after dropping its first k elements
DropFirst(q, k) == SubSeq(q, k + 1, Len(q))

\* while buffering is on, log displays nothing and appends its entry; what
\* is gone from the buffer afterwards are its oldest entries, and only when
\* the buffer would have more than MAX_BUFFER_LEN
LogOnlyAppends ==
  LogWhileBuffering =>
    /\ ui'.displayed = <<>>
    /\ ui'.log_buffering
    /\ Len(ui'.log_buffer) >= 1
    /\ ui'.log_buffer[Len(ui'.log_buffer)] = <<LevelOfTurn(ui.turn), Str(ui.turn)>>
    /\ \E k \in 0..Len(ui.log_buffer) :
         /\ ui'.log_buffer
              = DropFirst(Append(ui.log_buffer, ui'.log_buffer[Len(ui'.log_buffer)]), k)
         /\ k > 0 => Len(ui.log_buffer) + 1 > MAX_BUFFER_LEN

\* the entries of a buffer that are displayed: those of a level up to
\* log_level, in their order
Displayable(buffer, log_level) ==
  LET UpToLevel(entry) == entry[1] <= log_level
  IN SelectSeq(buffer, UpToLevel)

\* what a call displayed, as entries
DisplayedEntries(u) ==
  [i \in 1..Len(u.displayed) |-> <<u.displayed[i].level, u.displayed[i].text>>]

\* the step is a call of unblock that ends a time of buffering
Unblocks == ui.log_buffering /\ ~ui'.log_buffering

UnblockDisplays ==
  Unblocks =>
    /\ DisplayedEntries(ui') = Displayable(ui.log_buffer, ui.log_level)
    /\ ui'.log_buffer = <<>>

\* C21: the log buffer never holds more than MAX_BUFFER_LEN entries; while
\* buffering is on, log displays nothing and only appends, an overflow
\* discards only the oldest entries; unblock displays the retained entries of
\* a level up to log_level in the order they were logged and leaves the
\* buffer empty
C21_LogBuffer ==
  /\ [](Len(ui.log_buffer) <= MAX_BUFFER_LEN)
  /\ [][LogOnlyAppends /\ UnblockDisplays]_vars

\* a call of log made the buffer overflow and deleted entries from it,
\* while log_level would keep some of the retained entries from the display
C21_Witness ==
  /\ ui.log_buffering
  /\ ui.log_level = LOG_WARNING
  /\ ui.discarded > 0
  /\ Len(ui.log_buffer) = MAX_BUFFER_LEN + 1 - ui.discarded
  /\ \E i \in 1..Len(ui.log_buffer) : ui.log_buffer[i][1] > ui.log_level
====
